---- MODULE Spec2Model ----
(***************************************************************************)
(* Model of the real-time hub of ChatAppServer: the chat socket handler    *)
(* (socket/socketHandler.js, database variant), the agent socket handler   *)
(* (socket/agentHandler.js) and the agent REST routes (routes/agents.js).  *)
(*                                                                         *)
(* Every async handler is cut at its awaits: one action per synchronous    *)
(* segment.  A persistence write takes effect in its own step (Db...),     *)
(* between the call and the resumption of the handler, so other events     *)
(* interleave on both sides of it.                                         *)
(***************************************************************************)
EXTENDS Integers, Sequences, FiniteSets, TLC

\* ---------------------------------------------------------------- bounds
MaxConns == 2        \* connections that ever open
MaxInFlight == 2     \* handlers suspended on persistence at the same time
MaxAuthEvents == 2   \* authenticate events received in a run
MaxMsgs == 1         \* sendMessage submissions accepted in a run
MaxOrderMsgs == 2    \* the same, in the runs that compare the order of broadcasts
MaxDbFailures == 1   \* persistence calls that reject in a run

StartTime == 1000000 \* Date.now() when the server starts
MaxElapsed == 1      \* clock ticks in a run
MaxAgentAuth == 3    \* agent:authenticate events received per connection
MaxWindowAuth == 2   \* the same, in the runs that sweep the replay window
MaxCommands == 2     \* command ids issued in a run
MaxResponses == 2    \* command responses received in a run

Conns == 1..MaxConns
Users == {"u1", "u2"}          \* users present in the User collection
Ghost == "u0"                  \* a userId no User document has
BadToken == "bad"              \* a token jwt.verify rejects
Tokens == Users \cup {Ghost, BadToken}
None == "none"
EmptyMap == [x \in {} |-> None]
MapPut(f, k, v) == [x \in DOMAIN f \cup {k} |-> IF x = k THEN v ELSE f[x]]

\* rooms: the default scope, a room nobody joins, and each socket's own room
GeneralRoom == [name |-> "general", sock |-> 0]
SideRoom == [name |-> "side", sock |-> 0]
SockRoom(c) == [name |-> "", sock |-> c]
NoRoom == [name |-> "", sock |-> 0]      \* data.room undefined
RoomInputs == {NoRoom, SideRoom, SockRoom(1)}
Contents == {"text", "missing"}            \* data.content: a string, or undefined

VARIABLES
  conn,         \* conn[c]: "new" | "open" | "closed"  (socket.connected)
  sockUserId,   \* socket.userId of each connection, None when unset
  activeUsers,  \* the activeUsers Map, in insertion order: <<[socketId, userId]>>
  inGeneral,    \* adapter membership of room 'general'
  isOnline,     \* persisted User.isOnline
  authT,        \* authT[c]: the authenticate handlers in flight on c
  discT,        \* discT[c]: the disconnect handler in flight on c, or NoTask
  msgs,         \* msgs[m]: the sendMessage handler of submission m and its message
  msgLog,       \* newMessage broadcasts, in emission order: <<[msg, to]>>
  dbFailures,   \* persistence rejections so far
  authEvents,   \* authenticate events received so far
  now,          \* Date.now()
  agentConnections,  \* agentHandler.js: agentId -> [socketId, platform, connectedAt,
                     \*                              lastSeen, status]
  sockAgentId,  \* socket.agentId of each connection, None when unset
  agentHandlers,\* how many times handleAgentConnection(socket, io) ran on each socket
  activeAgents, \* routes/agents.js: agentId -> [platform, connectedAt, lastSeen, status]
  pendingCommands, \* agentHandler.js: command id -> the stored command
  timers,       \* agentHandler.js: pending setTimeout callbacks, {[id, due]}
  agentCommands,   \* routes/agents.js: command id -> the stored command
  agentResponses,  \* routes/agents.js: command id -> the stored response
  cmdSeq,       \* command ids issued so far by the callers of agentHandler.js
  uuidSeq,      \* command ids issued so far by crypto.randomUUID() in routes/agents.js
  respSeq,      \* command responses received so far
  reactions,    \* models/Message.js: the reactions array of one stored message,
                \* <<[user, emoji]>>
  messageDocs,  \* models/Message.js: the messages created through the REST routes,
                \* by id: <<[sender, content, isEdited, editedAt, isDeleted, deletedAt]>>
  emits,        \* the events emitted by the last step, in order
  last          \* the last step and what held before it:
                \* [op, conn, hadSession, hadUserId, user, msg, log, list, arg]

chatVars == <<conn, sockUserId, activeUsers, inGeneral, isOnline, authT, discT,
              msgs, msgLog, dbFailures, authEvents, reactions,
              messageDocs>>
cmdVars == <<pendingCommands, timers, agentCommands, agentResponses, cmdSeq, uuidSeq,
            respSeq>>
agentRest == <<now, sockAgentId, agentHandlers, activeAgents, cmdVars>>
agentVars == <<agentConnections, agentRest>>
vars == <<chatVars, agentVars, emits, last>>

NoTask == [pc |-> "none", uid |-> None, sess |-> None]

\* ------------------------------------------------------------- helpers
RECURSIVE SeqRemove(_, _)
SeqRemove(s, i) ==
  IF i = 1 THEN Tail(s) ELSE <<Head(s)>> \o SeqRemove(Tail(s), i - 1)

Range(s) == {s[i] : i \in 1..Len(s)}

\* a verification that accepts every token
JwtValidAny(tok) == TRUE

\* jwt.verify: throws on a bad token, else the decoded userId
JwtValid(tok) == tok # BadToken
Decoded(tok) == tok

\* User.findById(id): the document, or null
UserExists(uid) == uid \in Users

\* activeUsers.has(socket.id)
HasSession(c) == \E i \in 1..Len(activeUsers) : activeUsers[i].socketId = c
\* activeUsers.get(socket.id).userId, None when the Map has no such key
SessionUser(c) ==
  IF HasSession(c) THEN (CHOOSE e \in Range(activeUsers) : e.socketId = c).userId
  ELSE None

\* activeUsers.set(socket.id, {...}): a Map keeps the position of an existing key
MapSet(m, c, u) ==
  IF \E i \in 1..Len(m) : m[i].socketId = c
  THEN [i \in 1..Len(m) |->
          IF m[i].socketId = c THEN [socketId |-> c, userId |-> u] ELSE m[i]]
  ELSE Append(m, [socketId |-> c, userId |-> u])

\* activeUsers.delete(socket.id)
MapDelete(m, c) == SelectSeq(m, LAMBDA e : e.socketId # c)

\* Array.from(activeUsers.values()).find(user => user.userId === id)
FindTarget(uid) ==
  LET idx == {i \in 1..Len(activeUsers) : activeUsers[i].userId = uid}
  IN IF idx = {} THEN 0
     ELSE activeUsers[CHOOSE i \in idx : \A j \in idx : i <= j].socketId

\* the sockets a broadcast to a room reaches: adapter members still in nsp.sockets
Members(room) ==
  IF room = GeneralRoom THEN {d \in inGeneral : conn[d] = "open"}
  ELSE IF room.sock # 0 THEN {d \in Conns : d = room.sock /\ conn[d] = "open"}
  ELSE {}

Emit(ev, to, user, msg, list, text) ==
  [ev |-> ev, to |-> to, user |-> user, msg |-> msg, list |-> list, text |-> text]

Step(op, c, user, msg) ==
  [op |-> op, conn |-> c, hadSession |-> (c # 0 /\ HasSession(c)),
   hadUserId |-> (c # 0 /\ sockUserId[c] # None), user |-> user, msg |-> msg,
   log |-> <<>>, list |-> {}, arg |-> None]

\* the handlers suspended on a persistence call
InFlight ==
  LET RECURSIVE Sum(_)
      Sum(S) == IF S = {} THEN 0
                ELSE LET c == CHOOSE x \in S : TRUE
                     IN Len(authT[c]) + (IF discT[c].pc = "none" THEN 0 ELSE 1)
                        + Sum(S \ {c})
  IN Sum(Conns)
     + Cardinality({m \in 1..Len(msgs) : msgs[m].pc \in {"save", "populate"}})

\* ------------------------------------------------------------- Init
Init ==
  /\ conn = [c \in Conns |-> "new"]
  /\ sockUserId = [c \in Conns |-> None]
  /\ activeUsers = <<>>
  /\ inGeneral = {}
  /\ isOnline = [u \in Users |-> FALSE]
  /\ authT = [c \in Conns |-> <<>>]
  /\ discT = [c \in Conns |-> NoTask]
  /\ msgs = <<>>
  /\ msgLog = <<>>
  /\ dbFailures = 0
  /\ authEvents = 0
  /\ emits = <<>>
  /\ last = [op |-> "init", conn |-> 0, hadSession |-> FALSE, hadUserId |-> FALSE,
             user |-> None, msg |-> 0, log |-> <<>>, list |-> {}, arg |-> None]
  /\ now = StartTime
  /\ agentConnections = EmptyMap
  /\ sockAgentId = [c \in Conns |-> None]
  /\ agentHandlers = [c \in Conns |-> 0]
  /\ activeAgents = EmptyMap
  /\ pendingCommands = EmptyMap
  /\ timers = {}
  /\ agentCommands = EmptyMap
  /\ agentResponses = EmptyMap
  /\ cmdSeq = 0
  /\ uuidSeq = 0
  /\ respSeq = 0
  /\ reactions = <<>>
  /\ messageDocs = <<>>

\* ------------------------------------------------------------- agent registry
\* handleAgentConnection's 'disconnect' listener (one per registration, all alike):
\* if (socket.agentId) and the registry has that agentId, mark it disconnected
AgentDisconnect(c) ==
  IF agentHandlers[c] > 0 /\ sockAgentId[c] # None
     /\ sockAgentId[c] \in DOMAIN agentConnections
  THEN [agentConnections EXCEPT ![sockAgentId[c]].status = "disconnected"]
  ELSE agentConnections

\* ------------------------------------------------------------- connection
\* io.on('connection'): handleSocketConnection registers the handlers
Connect(c) ==
  /\ conn[c] = "new"
  /\ \A d \in Conns : d < c => conn[d] # "new"
  /\ conn' = [conn EXCEPT ![c] = "open"]
  /\ emits' = <<>>
  /\ last' = Step("connect", c, None, 0)
  /\ UNCHANGED <<messageDocs, reactions, sockUserId, activeUsers, inGeneral, isOnline, authT, discT,
                 msgs, msgLog, dbFailures, authEvents, agentVars>>

\* the disconnect handler's guard, without its second conjunct
DisconnectGuardNoHas(c) == sockUserId[c] # None

\* the disconnect handler's guard: if (socket.userId && activeUsers.has(socket.id))
DisconnectGuard(c) == sockUserId[c] # None /\ HasSession(c)

\* The synchronous part of a disconnect of c: the socket leaves its rooms and the
\* 'disconnect' listener runs up to its first await, User.findById(socket.userId).
\* A socket that is already closed emits no second 'disconnect'.
DisconnectSock(c) ==
  IF conn[c] # "open"
  THEN /\ UNCHANGED <<conn, inGeneral, activeUsers, discT, agentConnections>>
  ELSE /\ conn' = [conn EXCEPT ![c] = "closed"]
       /\ inGeneral' = inGeneral \ {c}
       /\ agentConnections' = AgentDisconnect(c)
       /\ IF DisconnectGuard(c)
          THEN /\ activeUsers' = MapDelete(activeUsers, c)
               /\ discT' = [discT EXCEPT ![c] =
                    [pc |-> "findById", uid |-> sockUserId[c], sess |-> SessionUser(c)]]
          ELSE UNCHANGED <<activeUsers, discT>>


\* ------------------------------------------------------------- authenticate
NewAuthTask(uid) == [uid |-> uid, pc |-> "findById", log |-> <<>>, list |-> {}]

SetTask(c, i, t) == [authT EXCEPT ![c][i] = t]
DropTask(c, i) == [authT EXCEPT ![c] = SeqRemove(@, i)]

\* catch (error) { socket.emit('authError', {error: 'Invalid token'}); socket.disconnect(); }
AuthCatch(c) ==
  /\ emits' = <<Emit("authError", {c}, None, 0, {}, "Invalid token")>>
  /\ DisconnectSock(c)

\* socket.on('authenticate'): jwt.verify, then await User.findById
Authenticate(c, tok) ==
  /\ conn[c] = "open"
  /\ JwtValid(tok) => InFlight < MaxInFlight
  /\ authEvents < MaxAuthEvents
  /\ authEvents' = authEvents + 1
  /\ last' = Step("authenticate", c, tok, 0)
  /\ IF JwtValid(tok)
     THEN /\ authT' = [authT EXCEPT ![c] = Append(@, NewAuthTask(Decoded(tok)))]
          /\ emits' = <<>>
          /\ UNCHANGED <<conn, inGeneral, activeUsers, discT, agentConnections>>
     ELSE /\ AuthCatch(c)
          /\ UNCHANGED authT
  /\ UNCHANGED <<messageDocs, reactions, sockUserId, isOnline, msgs, msgLog, dbFailures, agentRest>>

\* the handler going on without awaiting (or calling) setOnlineStatus
AfterUserFoundNoAwait == "setOnline_ret"

\* the await after a found user: await user.setOnlineStatus(true, socket.id)
AfterUserFound == "setOnline_call"

\* User.findById resolves: null -> authError 'User not found' and disconnect,
\* else socket.userId is set and setOnlineStatus(true) is called
AuthFindById(c, i) ==
  /\ i \in 1..Len(authT[c])
  /\ authT[c][i].pc = "findById"
  /\ LET t == authT[c][i] IN
     /\ last' = Step("authFindById", c, t.uid, 0)
     /\ IF ~UserExists(t.uid)
        THEN /\ emits' = <<Emit("authError", {c}, None, 0, {}, "User not found")>>
             /\ DisconnectSock(c)
             /\ authT' = DropTask(c, i)
             /\ UNCHANGED sockUserId
        ELSE /\ sockUserId' = [sockUserId EXCEPT ![c] = t.uid]
             /\ authT' = SetTask(c, i, [t EXCEPT !.pc = AfterUserFound])
             /\ emits' = <<>>
             /\ UNCHANGED <<conn, inGeneral, activeUsers, discT, agentConnections>>
  /\ UNCHANGED <<messageDocs, reactions, isOnline, msgs, msgLog, dbFailures, authEvents, agentRest>>

\* the write of setOnlineStatus(true) reaches the database
DbSetOnline(c, i) ==
  /\ i \in 1..Len(authT[c])
  /\ authT[c][i].pc = "setOnline_call"
  /\ LET t == authT[c][i] IN
     /\ isOnline' = [isOnline EXCEPT ![t.uid] = TRUE]
     /\ authT' = SetTask(c, i, [t EXCEPT !.pc = "setOnline_ret",
                                         !.log = Append(@, "online")])
     /\ last' = Step("dbSetOnline", c, t.uid, 0)
  /\ emits' = <<>>
  /\ UNCHANGED <<messageDocs, reactions, conn, sockUserId, activeUsers, inGeneral, discT, msgs, msgLog,
                 dbFailures, authEvents, agentVars>>

\* socket.to('general').emit('userJoined', ...): the scope without the socket itself
UserJoinedTargets(c) == Members(GeneralRoom) \ {c}

\* setOnlineStatus resolved: activeUsers.set, socket.join('general'), userJoined to
\* the others, then await User.find({isOnline: true})
AuthRegister(c, i) ==
  /\ i \in 1..Len(authT[c])
  /\ authT[c][i].pc = "setOnline_ret"
  /\ LET t == authT[c][i] IN
     /\ activeUsers' = MapSet(activeUsers, c, t.uid)
     /\ inGeneral' = inGeneral \cup {c}
     /\ emits' = <<Emit("userJoined", UserJoinedTargets(c), t.uid, 0, {}, "")>>
     /\ authT' = SetTask(c, i, [t EXCEPT !.pc = "find_call",
                                         !.log = @ \o <<"session", "userJoined">>])
     /\ last' = Step("authRegister", c, t.uid, 0)
  /\ UNCHANGED <<messageDocs, reactions, conn, sockUserId, isOnline, discT, msgs, msgLog, dbFailures,
                 authEvents, agentVars>>

\* User.find({isOnline: true}) as the database evaluates it
OnlineUsers == {u \in Users : isOnline[u]}

\* the query of the presence list reaches the database
DbFindOnline(c, i) ==
  /\ i \in 1..Len(authT[c])
  /\ authT[c][i].pc = "find_call"
  /\ LET t == authT[c][i] IN
     /\ authT' = SetTask(c, i, [t EXCEPT !.pc = "find_ret", !.list = OnlineUsers])
     /\ last' = Step("dbFindOnline", c, t.uid, 0)
  /\ emits' = <<>>
  /\ UNCHANGED <<messageDocs, reactions, conn, sockUserId, activeUsers, inGeneral, isOnline, discT, msgs,
                 msgLog, dbFailures, authEvents, agentVars>>

\* User.find resolved: socket.emit('activeUsers', ...), then await getRecentMessages
AuthActiveUsers(c, i) ==
  /\ i \in 1..Len(authT[c])
  /\ authT[c][i].pc = "find_ret"
  /\ LET t == authT[c][i] IN
     /\ emits' = <<Emit("activeUsers", {c}, t.uid, 0, t.list, "")>>
     /\ authT' = SetTask(c, i, [t EXCEPT !.pc = "recent",
                                         !.log = Append(@, "activeUsers")])
     /\ last' = Step("authActiveUsers", c, t.uid, 0)
  /\ UNCHANGED <<messageDocs, reactions, conn, sockUserId, activeUsers, inGeneral, isOnline, discT, msgs,
                 msgLog, dbFailures, authEvents, agentVars>>

\* Message.getRecentMessages: the persisted messages
RecentMessages == {m \in 1..Len(msgs) : msgs[m].persisted}

\* getRecentMessages resolved: socket.emit('messageHistory', ...); the handler ends
AuthHistory(c, i) ==
  /\ i \in 1..Len(authT[c])
  /\ authT[c][i].pc = "recent"
  /\ LET t == authT[c][i] IN
     /\ emits' = <<Emit("messageHistory", {c}, t.uid, 0, RecentMessages, "")>>
     /\ authT' = DropTask(c, i)
     /\ last' = [Step("authDone", c, t.uid, 0) EXCEPT
                     !.log = Append(t.log, "messageHistory"), !.list = t.list]
  /\ UNCHANGED <<messageDocs, reactions, conn, sockUserId, activeUsers, inGeneral, isOnline, discT, msgs,
                 msgLog, dbFailures, authEvents, agentVars>>

\* a persistence call of the handler rejects: the catch block runs
AuthDbFail(c, i) ==
  /\ i \in 1..Len(authT[c])
  /\ authT[c][i].pc \in {"findById", "setOnline_call", "find_call", "recent"}
  /\ dbFailures < MaxDbFailures
  /\ dbFailures' = dbFailures + 1
  /\ AuthCatch(c)
  /\ authT' = DropTask(c, i)
  /\ last' = Step("authDbFail", c, authT[c][i].uid, 0)
  /\ UNCHANGED <<messageDocs, reactions, sockUserId, isOnline, msgs, msgLog, authEvents, agentRest>>


\* ------------------------------------------------------------- disconnect
\* the client closes the connection
Disconnect(c) ==
  /\ conn[c] = "open"
  /\ DisconnectGuard(c) => InFlight < MaxInFlight
  /\ DisconnectSock(c)
  /\ emits' = <<>>
  /\ last' = Step("disconnect", c, sockUserId[c], 0)
  /\ UNCHANGED <<messageDocs, reactions, sockUserId, isOnline, authT, msgs, msgLog, dbFailures, authEvents,
                 agentRest>>

\* User.findById(socket.userId) resolves in the disconnect handler:
\* if (dbUser) await dbUser.setOnlineStatus(false), else straight to userLeft
DiscFindById(c) ==
  /\ discT[c].pc = "findById"
  /\ discT' = [discT EXCEPT ![c].pc =
                 IF UserExists(discT[c].uid) THEN "setOffline_call" ELSE "setOffline_ret"]
  /\ emits' = <<>>
  /\ last' = Step("discFindById", c, discT[c].uid, 0)
  /\ UNCHANGED <<messageDocs, reactions, conn, sockUserId, activeUsers, inGeneral, isOnline, authT, msgs,
                 msgLog, dbFailures, authEvents, agentVars>>

\* the write of setOnlineStatus(false) reaches the database
DbSetOffline(c) ==
  /\ discT[c].pc = "setOffline_call"
  /\ isOnline' = [isOnline EXCEPT ![discT[c].uid] = FALSE]
  /\ discT' = [discT EXCEPT ![c].pc = "setOffline_ret"]
  /\ emits' = <<>>
  /\ last' = Step("dbSetOffline", c, discT[c].uid, 0)
  /\ UNCHANGED <<messageDocs, reactions, conn, sockUserId, activeUsers, inGeneral, authT, msgs, msgLog,
                 dbFailures, authEvents, agentVars>>

\* socket.to('general').emit('userLeft', {userId: user.userId, ...}); the handler ends
\* (user.userId throws into the catch block when user is undefined)
DiscUserLeft(c) ==
  /\ discT[c].pc = "setOffline_ret"
  /\ emits' = IF discT[c].sess = None THEN <<>>
              ELSE <<Emit("userLeft", Members(GeneralRoom) \ {c}, discT[c].sess, 0, {}, "")>>
  /\ discT' = [discT EXCEPT ![c] = NoTask]
  /\ last' = Step("discUserLeft", c, discT[c].sess, 0)
  /\ UNCHANGED <<messageDocs, reactions, conn, sockUserId, activeUsers, inGeneral, isOnline, authT, msgs,
                 msgLog, dbFailures, authEvents, agentVars>>

\* a persistence call of the disconnect handler rejects: the error is only logged
DiscDbFail(c) ==
  /\ discT[c].pc \in {"findById", "setOffline_call"}
  /\ dbFailures < MaxDbFailures
  /\ dbFailures' = dbFailures + 1
  /\ discT' = [discT EXCEPT ![c] = NoTask]
  /\ emits' = <<>>
  /\ last' = Step("discDbFail", c, discT[c].uid, 0)
  /\ UNCHANGED <<messageDocs, reactions, conn, sockUserId, activeUsers, inGeneral, isOnline, authT, msgs,
                 msgLog, authEvents, agentVars>>


\* ------------------------------------------------------------- sendMessage
\* if (!socket.userId): the submission is refused
SendRefused(c) == sockUserId[c] = None

\* data.room || 'general'
RoomOrDefault(r) == IF r = NoRoom THEN GeneralRoom ELSE r

\* socket.on('sendMessage'): the guard, new Message({...}), then await message.save()
SendMessage(c, content, room) ==
  /\ conn[c] = "open"
  /\ IF SendRefused(c)
     THEN /\ emits' = <<Emit("error", {c}, None, 0, {}, "Not authenticated")>>
          /\ last' = Step("sendMessage", c, None, 0)
          /\ UNCHANGED msgs
     ELSE /\ Len(msgs) < MaxOrderMsgs
          /\ InFlight < MaxInFlight
          /\ msgs' = Append(msgs, [conn |-> c, sender |-> sockUserId[c],
                                   room |-> RoomOrDefault(room), content |-> content,
                                   pc |-> "save", persisted |-> FALSE])
          /\ emits' = <<>>
          /\ last' = Step("sendMessage", c, sockUserId[c], Len(msgs) + 1)
  /\ UNCHANGED <<messageDocs, reactions, conn, sockUserId, activeUsers, inGeneral, isOnline, authT, discT,
                 msgLog, dbFailures, authEvents, agentVars>>

\* the failure reported to the message's room instead of the sender
SendCatchToRoom(m) ==
  Emit("error", Members(msgs[m].room), None, m, {}, "Failed to send message")

\* catch (error) { socket.emit('error', {error: 'Failed to send message'}); }
SendCatch(m) == Emit("error", {msgs[m].conn}, None, m, {}, "Failed to send message")

\* message.save() resolves: the schema requires content; a valid message is stored
\* and the handler goes on to await message.populate(...)
MsgSave(m) ==
  /\ m \in 1..Len(msgs)
  /\ msgs[m].pc = "save"
  /\ IF msgs[m].content = "missing"
     THEN /\ msgs' = [msgs EXCEPT ![m].pc = "failed"]
          /\ emits' = <<SendCatch(m)>>
     ELSE /\ msgs' = [msgs EXCEPT ![m].pc = "populate", ![m].persisted = TRUE]
          /\ emits' = <<>>
  /\ last' = Step("msgSave", msgs[m].conn, msgs[m].sender, m)
  /\ UNCHANGED <<messageDocs, reactions, conn, sockUserId, activeUsers, inGeneral, isOnline, authT, discT,
                 msgLog, dbFailures, authEvents, agentVars>>

\* message.save() or message.populate() rejects: the catch block runs
MsgDbFail(m) ==
  /\ m \in 1..Len(msgs)
  /\ msgs[m].pc \in {"save", "populate"}
  /\ dbFailures < MaxDbFailures
  /\ dbFailures' = dbFailures + 1
  /\ msgs' = [msgs EXCEPT ![m].pc = "failed"]
  /\ emits' = <<SendCatch(m)>>
  /\ last' = Step("msgDbFail", msgs[m].conn, msgs[m].sender, m)
  /\ UNCHANGED <<messageDocs, reactions, conn, sockUserId, activeUsers, inGeneral, isOnline, authT, discT,
                 msgLog, authEvents, agentVars>>

\* the broadcast through socket.to(...), which leaves the sender out
NewMessageEmitsToOthers(m) ==
  <<Emit("newMessage", Members(msgs[m].room) \ {msgs[m].conn}, msgs[m].sender, m, {}, "")>>

\* io.to(data.room || 'general').emit('newMessage', formattedMessage)
NewMessageEmits(m) == <<Emit("newMessage", Members(msgs[m].room), msgs[m].sender, m, {}, "")>>

\* a hub that broadcasts a message only after every earlier submission is over
ResumesInSubmissionOrder(m) ==
  /\ msgs[m].pc = "populate"
  /\ \A k \in 1..(m - 1) : msgs[k].pc \in {"done", "failed"}

\* await message.populate(...): the handler resumes when its own promise resolves,
\* whatever the handlers of the other submissions are doing
Resumes(m) == msgs[m].pc = "populate"

\* populate resolved: the broadcast; the handler ends
MsgBroadcast(m) ==
  /\ m \in 1..Len(msgs)
  /\ Resumes(m)
  /\ msgs' = [msgs EXCEPT ![m].pc = "done"]
  /\ emits' = NewMessageEmits(m)
  /\ msgLog' = msgLog \o
       [i \in 1..Len(NewMessageEmits(m)) |->
          [msg |-> NewMessageEmits(m)[i].msg, to |-> NewMessageEmits(m)[i].to]]
  /\ last' = Step("msgBroadcast", msgs[m].conn, msgs[m].sender, m)
  /\ UNCHANGED <<messageDocs, reactions, conn, sockUserId, activeUsers, inGeneral, isOnline, authT, discT,
                 dbFailures, authEvents, agentVars>>

\* ------------------------------------------------------------- typing, calls
\* the indicator sent through io.to('general'), which includes the sender
TypingEmitsToAll(c) ==
  IF sockUserId[c] = None THEN <<>>
  ELSE <<Emit("userTyping", Members(GeneralRoom), sockUserId[c], 0, {}, "")>>

\* socket.on('typing'): if (!socket.userId) return; socket.to('general').emit(...)
TypingEmits(c) ==
  IF sockUserId[c] = None THEN <<>>
  ELSE <<Emit("userTyping", Members(GeneralRoom) \ {c}, sockUserId[c], 0, {}, "")>>

Typing(c) ==
  /\ conn[c] = "open"
  /\ emits' = TypingEmits(c)
  /\ last' = Step("typing", c, sockUserId[c], 0)
  /\ UNCHANGED <<chatVars, agentVars>>

\* the relay sent to every Session of the named user (filter instead of find)
RelayEmitsEverySession(ev, c, target) ==
  IF FindTarget(target) = 0 THEN <<>>
  ELSE <<Emit(ev, {d \in Conns : conn[d] = "open" /\ SessionUser(d) = target},
              sockUserId[c], 0, {}, "")>>

\* callRequest, callResponse, webrtc-signal: find the first Session of the named
\* user and io.to(<its socketId>).emit(ev, ...); nothing when there is none
RelayEmits(ev, c, target) ==
  IF FindTarget(target) = 0 THEN <<>>
  ELSE <<Emit(ev, Members(SockRoom(FindTarget(target))), sockUserId[c], 0, {}, "")>>

CallRequest(c, target) ==
  /\ conn[c] = "open"
  /\ emits' = RelayEmits("incomingCall", c, target)
  /\ last' = Step("callRequest", c, target, 0)
  /\ UNCHANGED <<chatVars, agentVars>>

CallResponse(c, callerId) ==
  /\ conn[c] = "open"
  /\ emits' = RelayEmits("callResponse", c, callerId)
  /\ last' = Step("callResponse", c, callerId, 0)
  /\ UNCHANGED <<chatVars, agentVars>>

WebrtcSignal(c, target) ==
  /\ conn[c] = "open"
  /\ emits' = RelayEmits("webrtc-signal", c, target)
  /\ last' = Step("webrtc-signal", c, target, 0)
  /\ UNCHANGED <<chatVars, agentVars>>

\* ------------------------------------------------------------- agent handshake
AuthWindowMs == 300000      \* if (timeDiff > 300000)
AgentIds == {"ag1", "ag2"}
Platform == "linux"

\* createSignature(data): HMAC-SHA256 of JSON.stringify(data) under the shared
\* secret, in hex.  Distinct payloads have distinct signatures.
CreateSignature(data) == [alg |-> "hmac-sha256-hex", over |-> data]
\* Buffer.from(JSON.stringify(data) + SHARED_SECRET).toString('base64').substring(0, 32)
SimpleSignature(data) == [alg |-> "base64-32", over |-> data]
NoSignature == [alg |-> "none", over |-> None]
ShortSignature == [alg |-> "hex-short", over |-> None]

\* Buffer.from(signature, 'hex') has the 32 bytes of a SHA-256 digest; otherwise
\* crypto.timingSafeEqual throws
DigestLength(sig) == sig.alg = "hmac-sha256-hex"

\* a verification that accepts every signature
VerifySignatureAny(data, sig) == "true"

\* agentHandler.js verifySignature: "throw" | "true" | "false"
VerifySignature(data, sig) ==
  IF ~DigestLength(sig) THEN "throw"
  ELSE IF sig = CreateSignature(data) THEN "true" ELSE "false"

\* routes/agents.js verifySignature: the HMAC comparison first, then the base64
\* comparison when the HMAC comparison returned false
VerifySignatureRest(data, sig) ==
  IF ~DigestLength(sig) THEN "throw"
  ELSE IF sig = CreateSignature(data) THEN "true"
  ELSE IF sig = SimpleSignature(data) THEN "true" ELSE "false"

Abs(x) == IF x < 0 THEN -x ELSE x

\* a window check that only rejects timestamps in the past
TimestampExpiredPastOnly(t, timestamp) == t - timestamp > AuthWindowMs

\* const timeDiff = Math.abs(now - timestamp); if (timeDiff > 300000)
TimestampExpired(t, timestamp) == Abs(t - timestamp) > AuthWindowMs

\* { agentId, platform, timestamp }
AuthPayload(d) == [agentId |-> d.agentId, platform |-> d.platform, timestamp |-> d.timestamp]

\* if (!agentId || !platform || !timestamp || !signature): undefined and 0 are falsy
MissingFields(d) ==
  d.agentId = None \/ d.platform = None \/ ~d.hasTs \/ d.timestamp = 0
    \/ d.signature = NoSignature

\* the handshake's checks in order, with the given verifySignature result
HandshakeOutcome(d, verified, t) ==
  IF MissingFields(d) THEN "missing"
  ELSE IF verified = "throw" THEN "error"
  ELSE IF verified = "false" THEN "badsig"
  ELSE IF TimestampExpired(t, d.timestamp) THEN "expired"
  ELSE "ok"

FailureMessage(outcome) ==
  IF outcome = "missing" THEN "Missing required authentication fields"
  ELSE IF outcome = "badsig" THEN "Invalid authentication signature"
  ELSE IF outcome = "expired" THEN "Authentication timestamp expired"
  ELSE "Authentication failed"

\* { status: 'authenticated', agentId, timestamp: now, signature }
Acknowledgement(agentId, t) ==
  [status |-> "authenticated", agentId |-> agentId, timestamp |-> t,
   signature |-> CreateSignature([status |-> "authenticated", agentId |-> agentId,
                                  timestamp |-> t])]

\* the handshakes a client can send at server time t.  For agent ag1: all four
\* fields present (a timestamp on either side of both edges of the window, or 0,
\* with a signature of each kind), or one field left out of an otherwise valid
\* handshake.  For agent ag2: a valid handshake, and a correctly signed stale one.
Handshakes(t) ==
  LET Hs(agentId, platform, hasTs, timestamp, sg) ==
        [agentId |-> agentId, platform |-> platform, hasTs |-> hasTs,
         timestamp |-> timestamp, signature |-> sg]
      P(agentId, timestamp) ==
        [agentId |-> agentId, platform |-> Platform, timestamp |-> timestamp]
      Sigs(agentId, timestamp) ==
        {CreateSignature(P(agentId, timestamp)), CreateSignature(P(agentId, t + 1)),
         SimpleSignature(P(agentId, timestamp)), ShortSignature}
      Times == {0, t - AuthWindowMs - 1, t - AuthWindowMs,
                t + AuthWindowMs, t + AuthWindowMs + 1}
  IN UNION {{Hs("ag1", Platform, TRUE, ts, sg) : sg \in Sigs("ag1", ts)} : ts \in Times}
     \cup {Hs(None, Platform, TRUE, t, CreateSignature(P(None, t))),
           Hs("ag1", None, TRUE, t,
              CreateSignature([agentId |-> "ag1", platform |-> None, timestamp |-> t])),
           Hs("ag1", Platform, FALSE, 0, CreateSignature(P("ag1", 0))),
           Hs("ag1", Platform, TRUE, t, NoSignature),
           Hs("ag2", Platform, TRUE, t, CreateSignature(P("ag2", t))),
           Hs("ag2", Platform, TRUE, t - AuthWindowMs - 1,
              CreateSignature(P("ag2", t - AuthWindowMs - 1)))}

\* one handshake of each outcome: for ag1 at the edge of the window with each kind
\* of signature, or without a signature; for ag2 valid, or correctly signed and stale
CoreHandshakes(t) ==
  {d \in Handshakes(t) :
     \/ d.agentId = "ag2"
     \/ d.agentId = "ag1" /\ d.hasTs /\ d.platform # None
          /\ (d.timestamp = t - AuthWindowMs \/ d.signature = NoSignature)}

\* an entry stamped with the client's timestamp instead of the server's time
AgentConnectionClientClock(c, d, t) ==
  [socketId |-> c, platform |-> d.platform, connectedAt |-> d.timestamp,
   lastSeen |-> d.timestamp, status |-> "authenticated"]

\* agentConnections.set(agentId, { socketId: socket.id, agentId, platform,
\*   connectedAt: now, lastSeen: now, status: 'authenticated' })
AgentConnection(c, d, t) ==
  [socketId |-> c, platform |-> d.platform, connectedAt |-> t, lastSeen |-> t,
   status |-> "authenticated"]

\* one run of the 'agent:authenticate' listener of handleAgentConnection: its reply
AgentAuthReply(c, d) ==
  LET out == HandshakeOutcome(d, VerifySignature(AuthPayload(d), d.signature), now)
  IN IF out = "ok"
     THEN Emit("agent:authenticated", {c}, d.agentId, 0,
               {Acknowledgement(d.agentId, now)}, "authenticated")
     ELSE Emit("agent:auth_failed", {c}, None, 0, {}, FailureMessage(out))

\* socket.on('agent:authenticate') of handleSocketConnection: it calls
\* handleAgentConnection(socket, io), which registers one more set of listeners,
\* and sends the event back to the client; the listeners registered by the
\* earlier events then each run the handshake
AgentAuthenticate(c, d) ==
  /\ conn[c] = "open"
  /\ agentHandlers[c] < MaxAgentAuth
  /\ LET out == HandshakeOutcome(d, VerifySignature(AuthPayload(d), d.signature), now)
         ran == agentHandlers[c]
     IN /\ agentHandlers' = [agentHandlers EXCEPT ![c] = @ + 1]
        /\ emits' = <<Emit("agent:authenticate", {c}, None, 0, {}, "")>>
                      \o [i \in 1..ran |-> AgentAuthReply(c, d)]
        /\ IF ran > 0 /\ out = "ok"
           THEN /\ agentConnections' = MapPut(agentConnections, d.agentId,
                                              AgentConnection(c, d, now))
                /\ sockAgentId' = [sockAgentId EXCEPT ![c] = d.agentId]
           ELSE UNCHANGED <<agentConnections, sockAgentId>>
        /\ last' = [Step("agentAuthenticate", c, d.agentId, ran) EXCEPT
                      !.arg = [d |-> d, now |-> now, hadAgentId |-> sockAgentId[c],
                               prevSocket |-> IF d.agentId \in DOMAIN agentConnections
                                              THEN agentConnections[d.agentId].socketId
                                              ELSE 0]]
  /\ UNCHANGED <<chatVars, now, activeAgents, cmdVars>>

\* POST /api/agents/authenticate: the response is [status code, body]
RestAuthenticate(d) ==
  /\ LET out == HandshakeOutcome(d, VerifySignatureRest(AuthPayload(d), d.signature), now)
     IN /\ IF out = "ok"
           THEN /\ activeAgents' = MapPut(activeAgents, d.agentId,
                     [platform |-> d.platform, connectedAt |-> now, lastSeen |-> now,
                      status |-> "authenticated"])
                /\ emits' = <<Emit("http", {}, d.agentId, 200,
                                   {Acknowledgement(d.agentId, now)}, "authenticated")>>
           ELSE /\ UNCHANGED activeAgents
                /\ emits' = <<Emit("http", {}, None,
                                   IF out = "missing" THEN 400
                                   ELSE IF out = "error" THEN 500 ELSE 401,
                                   {}, FailureMessage(out))>>
        /\ last' = [Step("restAuthenticate", 0, d.agentId, 1) EXCEPT
                      !.arg = [d |-> d, now |-> now, hadAgentId |-> None, prevSocket |-> 0]]
  /\ UNCHANGED <<chatVars, now, agentConnections, sockAgentId, agentHandlers, cmdVars>>

\* time passes
Tick ==
  /\ now < StartTime + MaxElapsed
  /\ now' = now + 1
  /\ emits' = <<>>
  /\ last' = Step("tick", 0, None, 0)
  /\ UNCHANGED <<chatVars, agentConnections, sockAgentId, agentHandlers, activeAgents,
                 cmdVars>>


\* ------------------------------------------------------------- commands, live path
RetentionMs == 300000      \* setTimeout(() => pendingCommands.delete(commandId), 300000)
Modules == {"fs", "net"}
CommandAction == "listFiles"
ResponseStatuses == {"completed", "pending"}

\* `command:${command.module}`
CommandChannel(module) == IF module = "fs" THEN "command:fs" ELSE "command:net"

\* sha256(id + action + SHARED_SECRET) in hex
AuthHash(id, action) == [alg |-> "sha256-hex", over |-> <<id, action>>]

\* the command object a caller passes: it names its target when it has a single one
Command(id, agentId, module) ==
  [id |-> id, agentId |-> agentId, module |-> module, action |-> CommandAction]

\* { ...command, timestamp: Date.now(), authHash }
AuthenticatedCommand(command, t) ==
  [id |-> command.id, agentId |-> command.agentId, module |-> command.module,
   action |-> command.action, timestamp |-> t,
   authHash |-> AuthHash(command.id, command.action)]

\* { ...authenticatedCommand, status: 'sent', sentAt: Date.now() }; completedAt and
\* response are set by the response handler
StoredCommand(command, t) ==
  [id |-> command.id, agentId |-> command.agentId, module |-> command.module,
   action |-> command.action, timestamp |-> t,
   authHash |-> AuthHash(command.id, command.action),
   status |-> "sent", sentAt |-> t, completedAt |-> 0, response |-> <<>>]

\* io.sockets.sockets.get(socketId): the connected sockets
SocketLive(sid) == sid \in Conns /\ conn[sid] = "open"

\* a dispatch that stores the command before it looks the agent up
SendCommandStoreFirst(table, agentId, command) ==
  LET stored == MapPut(table, command.id, StoredCommand(command, now))
  IN IF agentId \notin DOMAIN agentConnections
     THEN [table |-> stored, emits |-> <<>>, result |-> "AgentNotFound"]
     ELSE IF SocketLive(agentConnections[agentId].socketId)
     THEN [table |-> stored,
           emits |-> <<Emit(CommandChannel(command.module),
                            {agentConnections[agentId].socketId}, agentId, command.id,
                            {AuthenticatedCommand(command, now)}, "")>>,
           result |-> "ok"]
     ELSE [table |-> stored, emits |-> <<>>, result |-> "SocketNotFound"]

\* sendCommandToAgent(io, agentId, command) on the command table `table`: the table
\* after the call, what it emitted, and "ok" (return true) or the Error it threw
SendCommand(table, agentId, command) ==
  IF agentId \notin DOMAIN agentConnections
  THEN [table |-> table, emits |-> <<>>, result |-> "AgentNotFound"]
  ELSE LET stored == MapPut(table, command.id, StoredCommand(command, now))
       IN IF SocketLive(agentConnections[agentId].socketId)
          THEN [table |-> stored,
                emits |-> <<Emit(CommandChannel(command.module),
                                 {agentConnections[agentId].socketId}, agentId,
                                 command.id, {AuthenticatedCommand(command, now)}, "")>>,
                result |-> "ok"]
          ELSE [table |-> stored, emits |-> <<>>, result |-> "SocketNotFound"]

\* the registry entry's transport, 0 when there is no entry
Transport(agentId) ==
  IF agentId \in DOMAIN agentConnections THEN agentConnections[agentId].socketId ELSE 0

\* a caller dispatches a new command to agentId
SendCommandToAgent(agentId, module) ==
  /\ cmdSeq < MaxCommands
  /\ cmdSeq' = cmdSeq + 1
  /\ LET r == SendCommand(pendingCommands, agentId, Command(cmdSeq + 1, agentId, module))
     IN /\ pendingCommands' = r.table
        /\ emits' = r.emits
        /\ last' = [Step("sendCommandToAgent", 0, agentId, cmdSeq + 1) EXCEPT
                      !.arg = [module |-> module, result |-> r.result,
                               transport |-> Transport(agentId)]]
  /\ UNCHANGED <<chatVars, agentConnections, now, sockAgentId, agentHandlers,
                 activeAgents, timers, agentCommands, agentResponses, uuidSeq, respSeq>>

\* Array.from(agentConnections.values())
\*   .filter(agent => agent.status === 'authenticated' || agent.status === 'active')
BroadcastTargets ==
  {a \in DOMAIN agentConnections :
     agentConnections[a].status \in {"authenticated", "active"}}

\* the orders in which a Map can hold the keys S
Orders(S) ==
  {o \in [1..Cardinality(S) -> S] : \A i, j \in 1..Cardinality(S) : o[i] = o[j] => i = j}

\* a loop that stops at the first delivery that fails
RECURSIVE BroadcastRunAbortOnFailure(_, _, _)
BroadcastRunAbortOnFailure(order, command, acc) ==
  IF order = <<>> THEN acc
  ELSE LET r == SendCommand(acc.table, Head(order), command)
           next == [table |-> r.table, emits |-> acc.emits \o r.emits,
                    results |-> Append(acc.results,
                                  [agentId |-> Head(order), success |-> r.result = "ok"])]
       IN IF r.result = "ok" THEN BroadcastRunAbortOnFailure(Tail(order), command, next)
          ELSE next

\* for (const agent of activeAgents) { try { sendCommandToAgent(...); push success }
\*                                     catch { push failure } }
RECURSIVE BroadcastRun(_, _, _)
BroadcastRun(order, command, acc) ==
  IF order = <<>> THEN acc
  ELSE LET r == SendCommand(acc.table, Head(order), command)
       IN BroadcastRun(Tail(order), command,
            [table |-> r.table, emits |-> acc.emits \o r.emits,
             results |-> Append(acc.results,
                           [agentId |-> Head(order), success |-> r.result = "ok"])])

\* broadcastCommandToAllAgents(io, command): one command object for all recipients
BroadcastCommandToAllAgents(module) ==
  /\ cmdSeq < MaxCommands
  /\ cmdSeq' = cmdSeq + 1
  /\ \E order \in Orders(BroadcastTargets) :
       LET r == BroadcastRun(order, Command(cmdSeq + 1, None, module),
                             [table |-> pendingCommands, emits |-> <<>>, results |-> <<>>])
       IN /\ pendingCommands' = r.table
          /\ emits' = r.emits
          /\ last' = [Step("broadcastCommandToAllAgents", 0, None, cmdSeq + 1) EXCEPT
                        !.arg = [module |-> module, targets |-> BroadcastTargets,
                                 results |-> r.results]]
  /\ UNCHANGED <<chatVars, agentConnections, now, sockAgentId, agentHandlers,
                 activeAgents, timers, agentCommands, agentResponses, uuidSeq, respSeq>>

\* the response handlers leaving the agent's status as it is
AgentAfterResponseKeepStatus(agent, t) == [agent EXCEPT !.lastSeen = t]

\* agent.lastSeen = Date.now(); agent.status = 'active'
AgentAfterResponse(agent, t) == [agent EXCEPT !.lastSeen = t, !.status = "active"]

\* a response handler that keeps the first response of a command
CommandAfterResponseKeepFirst(command, response, t) ==
  IF command.response # <<>> THEN command
  ELSE [command EXCEPT !.status = response.status, !.completedAt = t,
                       !.response = <<response>>]

\* command.status = status; command.completedAt = Date.now(); command.response = response
CommandAfterResponse(command, response, t) ==
  [command EXCEPT !.status = response.status, !.completedAt = t,
                  !.response = <<response>>]

\* a lookup that finds every command id
CommandKnownAlways(table, id) == TRUE

\* pendingCommands.has(commandId) / agentCommands.has(commandId)
CommandKnown(table, id) == id \in DOMAIN table

\* socket.on('response:command'): every listener registered on the socket by an
\* earlier agent:authenticate event runs; a socket without one ignores the event
ResponseCommand(c, response) ==
  /\ conn[c] = "open"
  /\ respSeq < MaxResponses
  /\ respSeq' = respSeq + 1
  /\ LET ran == agentHandlers[c]
         id == response.commandId
         known == CommandKnown(pendingCommands, id)
     IN /\ IF ran > 0 /\ known
           THEN /\ pendingCommands' = [pendingCommands EXCEPT
                     ![id] = CommandAfterResponse(@, response, now)]
                /\ timers' = timers \cup {[id |-> id, due |-> now + RetentionMs]}
           ELSE UNCHANGED <<pendingCommands, timers>>
        /\ IF ran > 0 /\ response.agentId \in DOMAIN agentConnections
           THEN agentConnections' = [agentConnections EXCEPT
                  ![response.agentId] = AgentAfterResponse(@, now)]
           ELSE UNCHANGED agentConnections
        /\ last' = [Step("response:command", c, response.agentId, ran) EXCEPT
                      !.arg = [response |-> response, now |-> now, known |-> known,
                               prev |-> IF id \in DOMAIN pendingCommands
                                        THEN pendingCommands[id].response ELSE <<>>]]
  /\ emits' = <<>>
  /\ UNCHANGED <<chatVars, now, sockAgentId, agentHandlers, activeAgents,
                 agentCommands, agentResponses, cmdSeq, uuidSeq>>

\* a timer set by the response handler fires: pendingCommands.delete(commandId)
TimerFire(id) ==
  /\ \E tm \in timers : tm.id = id /\ tm.due <= now
  /\ timers' = {tm \in timers : ~(tm.id = id /\ tm.due <= now)}
  /\ pendingCommands' = [x \in DOMAIN pendingCommands \ {id} |-> pendingCommands[x]]
  /\ emits' = <<>>
  /\ last' = Step("timer", 0, None, id)
  /\ UNCHANGED <<chatVars, agentConnections, now, sockAgentId, agentHandlers,
                 activeAgents, agentCommands, agentResponses, cmdSeq, uuidSeq, respSeq>>

\* the retention time passes, once and then for as long as a timer is pending
Elapse ==
  /\ now < StartTime + RetentionMs \/ \E tm \in timers : now < tm.due
  /\ now' = now + RetentionMs
  /\ emits' = <<>>
  /\ last' = Step("elapse", 0, None, 0)
  /\ UNCHANGED <<chatVars, agentConnections, sockAgentId, agentHandlers, activeAgents,
                 cmdVars>>

\* ------------------------------------------------------------- commands, REST path
\* the command POST /command and POST /broadcast create
RestStoredCommand(id, agentId, module, t) ==
  [id |-> id, agentId |-> agentId, module |-> module, action |-> CommandAction,
   timestamp |-> t, status |-> "pending", authHash |-> AuthHash(id, CommandAction),
   completedAt |-> 0]

\* POST /api/agents/command
RestCommand(agentId, module) ==
  /\ uuidSeq < MaxCommands
  /\ IF agentId \notin DOMAIN activeAgents
     THEN /\ emits' = <<Emit("http", {}, agentId, 404, {},
                             "Agent not found or not authenticated")>>
          /\ UNCHANGED <<agentCommands, activeAgents, uuidSeq>>
     ELSE /\ uuidSeq' = uuidSeq + 1
          /\ agentCommands' = MapPut(agentCommands, uuidSeq + 1,
                                     RestStoredCommand(uuidSeq + 1, agentId, module, now))
          /\ activeAgents' = [activeAgents EXCEPT ![agentId].lastSeen = now,
                                                  ![agentId].status = "command_sent"]
          /\ emits' = <<Emit("http", {}, agentId, 200, {[commandId |-> uuidSeq + 1]},
                             "Command sent to agent")>>
  /\ last' = [Step("restCommand", 0, agentId, 0) EXCEPT
                !.arg = [module |-> module, known |-> agentId \in DOMAIN activeAgents]]
  /\ UNCHANGED <<chatVars, agentConnections, now, sockAgentId, agentHandlers,
                 pendingCommands, timers, agentResponses, cmdSeq, respSeq>>

\* Array.from(activeAgents.keys())
RestBroadcastTargets == DOMAIN activeAgents

\* POST /api/agents/broadcast: a command with an id of its own for every key
RestBroadcast(module) ==
  /\ uuidSeq + Cardinality(RestBroadcastTargets) <= MaxCommands
  /\ \E order \in Orders(RestBroadcastTargets) :
       /\ agentCommands' =
            [id \in DOMAIN agentCommands \cup {uuidSeq + i : i \in 1..Len(order)} |->
               IF id > uuidSeq /\ id <= uuidSeq + Len(order)
               THEN RestStoredCommand(id, order[id - uuidSeq], module, now)
               ELSE agentCommands[id]]
       /\ emits' = <<Emit("http", {}, None, 200,
                          [i \in 1..Len(order) |-> uuidSeq + i], "Command broadcast")>>
       /\ last' = [Step("restBroadcast", 0, None, 0) EXCEPT
                     !.arg = [module |-> module, targets |-> RestBroadcastTargets,
                              order |-> order]]
  /\ uuidSeq' = uuidSeq + Cardinality(RestBroadcastTargets)
  /\ UNCHANGED <<chatVars, agentConnections, now, sockAgentId, agentHandlers,
                 activeAgents, pendingCommands, timers, agentResponses, cmdSeq, respSeq>>

\* POST /api/agents/response
RestResponse(response) ==
  /\ respSeq < MaxResponses
  /\ respSeq' = respSeq + 1
  /\ LET id == response.commandId
         known == CommandKnown(agentCommands, id)
     IN /\ IF ~known
           THEN /\ emits' = <<Emit("http", {}, response.agentId, 404, {}, "Command not found")>>
                /\ UNCHANGED <<agentResponses, agentCommands, activeAgents>>
           ELSE /\ agentResponses' = MapPut(agentResponses, id,
                     [commandId |-> id, agentId |-> response.agentId,
                      status |-> response.status, receivedAt |-> now])
                /\ agentCommands' = [agentCommands EXCEPT ![id].status = response.status,
                                                          ![id].completedAt = now]
                /\ activeAgents' =
                     IF response.agentId \in DOMAIN activeAgents
                     THEN [activeAgents EXCEPT
                             ![response.agentId] = AgentAfterResponse(@, now)]
                     ELSE activeAgents
                /\ emits' = <<Emit("http", {}, response.agentId, 200, {}, "Response received")>>
        /\ last' = [Step("restResponse", 0, response.agentId, 1) EXCEPT
                      !.arg = [response |-> response, now |-> now, known |-> known,
                               prev |-> IF id \in DOMAIN agentResponses
                                        THEN <<agentResponses[id]>> ELSE <<>>]]
  /\ UNCHANGED <<chatVars, agentConnections, now, sockAgentId, agentHandlers,
                 pendingCommands, timers, cmdSeq, uuidSeq>>

\* the responses an agent can send
Responses ==
  [commandId : 1..MaxCommands, agentId : AgentIds, status : ResponseStatuses]

\* the agent behind each connection
AgentOf(c) == IF c = 1 THEN "ag1" ELSE "ag2"

\* the handshakes that pass every check
ValidHandshakes(t) ==
  {d \in CoreHandshakes(t) :
     HandshakeOutcome(d, VerifySignature(AuthPayload(d), d.signature), t) = "ok"}

\* nothing has happened on the live path / on the REST path
LiveIdle == (\A c \in Conns : conn[c] = "new") /\ cmdSeq = 0
RestIdle == activeAgents = EmptyMap /\ uuidSeq = 0

\* the callers' commands: the first one for module 'fs', the second for 'net'
ModuleOf(id) == IF id = 1 THEN "fs" ELSE "net"

\* command dispatch and response ingestion, in runs shorter than the retention
\* time.  The live path and the REST path share no state: a run exercises one of
\* them.
NextCommand ==
  \/ RestIdle /\ \E c \in Conns : Connect(c)
  \/ RestIdle /\ \E c \in Conns : Disconnect(c)
  \/ RestIdle /\ \E c \in Conns : \E d \in ValidHandshakes(now) :
       /\ agentHandlers[c] < MaxWindowAuth
       /\ d.agentId = AgentOf(c)
       /\ AgentAuthenticate(c, d)
  \/ RestIdle /\ \E a \in AgentIds, m \in Modules :
       m = ModuleOf(cmdSeq + 1) /\ SendCommandToAgent(a, m)
  \/ RestIdle /\ \E m \in Modules :
       m = ModuleOf(cmdSeq + 1) /\ BroadcastCommandToAllAgents(m)
  \/ RestIdle /\ \E c \in Conns : \E r \in Responses : ResponseCommand(c, r)
  \/ LiveIdle /\ \E d \in ValidHandshakes(now) : RestAuthenticate(d)
  \/ LiveIdle /\ \E a \in AgentIds, m \in Modules :
       m = ModuleOf(uuidSeq + 1) /\ RestCommand(a, m)
  \/ LiveIdle /\ \E m \in Modules : m = ModuleOf(uuidSeq + 1) /\ RestBroadcast(m)
  \/ LiveIdle /\ \E r \in Responses : RestResponse(r)
  \/ Tick

\* ------------------------------------------------------------- registry upkeep
InactiveThresholdMs == 1800000    \* inactiveThreshold = 30 * 60 * 1000
NoStatus == ""                    \* response.status undefined
PingStatuses == {NoStatus, "active"}
Pings == [agentId : AgentIds, status : PingStatuses]

\* status || 'alive'
PingStatus(status) == IF status = NoStatus THEN "alive" ELSE status

\* a ping that refreshes lastSeen only
AgentAfterPingLivenessOnly(agent, status, t) == [agent EXCEPT !.lastSeen = t]

\* agent.lastSeen = Date.now(); agent.status = status || 'alive'
AgentAfterPing(agent, status, t) ==
  [agent EXCEPT !.lastSeen = t, !.status = PingStatus(status)]

\* socket.on('response:ping'): every listener registered on the socket runs
ResponsePing(c, response) ==
  /\ conn[c] = "open"
  /\ LET ran == agentHandlers[c]
     IN /\ ran > 0
        /\ IF response.agentId \in DOMAIN agentConnections
           THEN agentConnections' = [agentConnections EXCEPT
                  ![response.agentId] = AgentAfterPing(@, response.status, now)]
           ELSE UNCHANGED agentConnections
        /\ last' = [Step("response:ping", c, response.agentId, ran) EXCEPT
                      !.arg = [response |-> response, now |-> now]]
  /\ emits' = <<>>
  /\ UNCHANGED <<chatVars, agentRest>>

\* a sweep that also removes the entries exactly at the threshold
CleanupSweepAtThreshold(registry, t) ==
  [a \in {b \in DOMAIN registry : ~(t - registry[b].lastSeen >= InactiveThresholdMs)} |->
     registry[a]]

\* for (const [agentId, agent] of registry)
\*   if (now - agent.lastSeen > inactiveThreshold) registry.delete(agentId)
CleanupSweep(registry, t) ==
  [a \in {b \in DOMAIN registry : ~(t - registry[b].lastSeen > InactiveThresholdMs)} |->
     registry[a]]

\* cleanupInactiveAgents(): returns cleanedCount
CleanupInactiveAgents ==
  /\ agentConnections' = CleanupSweep(agentConnections, now)
  /\ emits' = <<>>
  /\ last' = [Step("cleanupInactiveAgents", 0, None, 0) EXCEPT
                !.arg = [now |-> now,
                         cleaned |-> Cardinality(DOMAIN agentConnections) -
                           Cardinality(DOMAIN CleanupSweep(agentConnections, now))]]
  /\ UNCHANGED <<chatVars, agentRest>>

\* POST /api/agents/cleanup: the response reports cleanedCount
RestCleanup ==
  /\ activeAgents' = CleanupSweep(activeAgents, now)
  /\ emits' = <<Emit("http", {}, None, 200,
                     {[cleaned |-> Cardinality(DOMAIN activeAgents) -
                         Cardinality(DOMAIN CleanupSweep(activeAgents, now))]},
                     "Cleaned up inactive agents")>>
  /\ last' = [Step("restCleanup", 0, None, 0) EXCEPT
                !.arg = [now |-> now,
                         cleaned |-> Cardinality(DOMAIN activeAgents) -
                           Cardinality(DOMAIN CleanupSweep(activeAgents, now))]]
  /\ UNCHANGED <<chatVars, agentConnections, now, sockAgentId, agentHandlers, cmdVars>>

\* the inactivity threshold passes
ElapseInactive ==
  /\ now < StartTime + InactiveThresholdMs
  /\ now' = now + InactiveThresholdMs
  /\ emits' = <<>>
  /\ last' = Step("elapse", 0, None, 0)
  /\ UNCHANGED <<chatVars, agentConnections, sockAgentId, agentHandlers, activeAgents,
                 cmdVars>>

\* the responses of an agent to a command that is not in the table
StrayResponses == {r \in Responses : r.commandId = 1 /\ r.status = "completed"}

\* the life of the registry entries: handshakes, pings, responses, disconnects,
\* REST commands and sweeps, over more than the inactivity threshold
NextRegistry ==
  \/ RestIdle /\ \E c \in Conns : Connect(c)
  \/ RestIdle /\ \E c \in Conns : Disconnect(c)
  \/ RestIdle /\ \E c \in Conns : \E d \in ValidHandshakes(now) :
       /\ agentHandlers[c] < MaxWindowAuth
       /\ d.agentId = AgentOf(c)
       /\ AgentAuthenticate(c, d)
  \/ RestIdle /\ \E c \in Conns : \E r \in Pings : ResponsePing(c, r)
  \/ RestIdle /\ \E c \in Conns : \E r \in StrayResponses : ResponseCommand(c, r)
  \/ RestIdle /\ CleanupInactiveAgents
  \/ LiveIdle /\ \E d \in ValidHandshakes(now) : RestAuthenticate(d)
  \/ LiveIdle /\ \E a \in AgentIds, m \in Modules :
       m = ModuleOf(uuidSeq + 1) /\ RestCommand(a, m)
  \/ LiveIdle /\ \E r \in Responses : RestResponse(r)
  \/ LiveIdle /\ RestCleanup
  \/ Tick
  \/ ElapseInactive

\* the commands over a time longer than the retention time: dispatch, responses,
\* the eviction timers
NextRetention ==
  \/ RestIdle /\ \E c \in Conns : Connect(c)
  \/ RestIdle /\ \E c \in Conns : \E d \in ValidHandshakes(now) :
       /\ agentHandlers[c] < MaxWindowAuth
       /\ d.agentId = AgentOf(c)
       /\ AgentAuthenticate(c, d)
  \/ RestIdle /\ \E a \in AgentIds, m \in Modules :
       m = ModuleOf(cmdSeq + 1) /\ SendCommandToAgent(a, m)
  \/ RestIdle /\ \E c \in Conns : \E r \in Responses : ResponseCommand(c, r)
  \/ \E id \in 1..MaxCommands : TimerFire(id)
  \/ LiveIdle /\ \E d \in ValidHandshakes(now) : RestAuthenticate(d)
  \/ LiveIdle /\ \E a \in AgentIds, m \in Modules :
       m = ModuleOf(uuidSeq + 1) /\ RestCommand(a, m)
  \/ LiveIdle /\ \E r \in Responses : RestResponse(r)
  \/ Elapse

\* ------------------------------------------------------------- reactions
Reactors == {"u1", "u2", "u3"}     \* req.user.userId of the requests
NoEmoji == ""                      \* req.body.emoji undefined
Emojis == {"like", "heart"}

\* an addReaction that only pushes
AddReactionPushOnly(list, userId, emoji) ==
  Append(list, [user |-> userId, emoji |-> emoji])

\* messageSchema.methods.addReaction: filter out the user's entry, push the new one
AddReaction(list, userId, emoji) ==
  Append(SelectSeq(list, LAMBDA r : r.user # userId), [user |-> userId, emoji |-> emoji])

\* messageSchema.methods.removeReaction: filter out the user's entry
RemoveReaction(list, userId) == SelectSeq(list, LAMBDA r : r.user # userId)

\* POST /message/:messageId/reaction on the stored message
PostReaction(userId, emoji) ==
  /\ IF emoji = NoEmoji
     THEN /\ emits' = <<Emit("http", {}, userId, 400, {}, "Emoji is required")>>
          /\ UNCHANGED reactions
     ELSE /\ reactions' = AddReaction(reactions, userId, emoji)
          /\ emits' = <<Emit("http", {}, userId, 200, {}, "Reaction added successfully")>>
  /\ last' = [Step("addReaction", 0, userId, 0) EXCEPT
                !.log = reactions, !.arg = [emoji |-> emoji]]
  /\ UNCHANGED <<messageDocs, conn, sockUserId, activeUsers, inGeneral, isOnline, authT,
                 discT, msgs, msgLog, dbFailures, authEvents, agentVars>>

\* DELETE /message/:messageId/reaction on the stored message
DeleteReaction(userId) ==
  /\ reactions' = RemoveReaction(reactions, userId)
  /\ emits' = <<Emit("http", {}, userId, 200, {}, "Reaction removed successfully")>>
  /\ last' = [Step("removeReaction", 0, userId, 0) EXCEPT
                !.log = reactions, !.arg = [emoji |-> NoEmoji]]
  /\ UNCHANGED <<messageDocs, conn, sockUserId, activeUsers, inGeneral, isOnline, authT,
                 discT, msgs, msgLog, dbFailures, authEvents, agentVars>>

\* the reaction requests on one message, one after the other
NextReaction ==
  \/ \E u \in Reactors, e \in Emojis \cup {NoEmoji} : PostReaction(u, e)
  \/ \E u \in Reactors : DeleteReaction(u)

\* ------------------------------------------------------------- edit, delete
MaxDocs == 2                       \* messages created through POST /message
NoContent == ""                    \* req.body.content undefined
Texts == {"hello", "bye"}

\* new Message({ sender: userId, content, ... })
MessageDoc(userId, content) ==
  [sender |-> userId, content |-> content, isEdited |-> FALSE, editedAt |-> 0,
   isDeleted |-> FALSE, deletedAt |-> 0]

\* a check that lets every requester through
SenderEqualsAnyone(doc, userId) == TRUE

\* message.sender.equals(userId)
SenderEquals(doc, userId) == doc.sender = userId

\* messageSchema.methods.editMessage
EditMessage(doc, newContent, t) ==
  [doc EXCEPT !.content = newContent, !.isEdited = TRUE, !.editedAt = t]

\* messageSchema.methods.softDelete
SoftDelete(doc, t) == [doc EXCEPT !.isDeleted = TRUE, !.deletedAt = t]

\* the answer of a REST route: its status code and its message
Http(userId, code, text) == <<Emit("http", {}, userId, code, {}, text)>>

\* POST /message without a file
PostMessage(userId, content) ==
  /\ IF content = NoContent
     THEN /\ emits' = Http(userId, 400, "Message content or file is required")
          /\ UNCHANGED messageDocs
     ELSE /\ Len(messageDocs) < MaxDocs
          /\ messageDocs' = Append(messageDocs, MessageDoc(userId, content))
          /\ emits' = Http(userId, 201, "Message created successfully")
  /\ last' = [Step("postMessage", 0, userId, 0) EXCEPT
                !.log = messageDocs, !.arg = [content |-> content]]
  /\ UNCHANGED <<reactions, conn, sockUserId, activeUsers, inGeneral, isOnline, authT,
                 discT, msgs, msgLog, dbFailures, authEvents, agentVars>>

\* PUT /message/:messageId; Message.findById finds the ids created so far
PutMessage(userId, messageId, content) ==
  /\ IF content = NoContent
     THEN /\ emits' = Http(userId, 400, "Message content is required")
          /\ UNCHANGED messageDocs
     ELSE IF messageId > Len(messageDocs)
     THEN /\ emits' = Http(userId, 404, "Message not found")
          /\ UNCHANGED messageDocs
     ELSE IF ~SenderEquals(messageDocs[messageId], userId)
     THEN /\ emits' = Http(userId, 403, "You can only edit your own messages")
          /\ UNCHANGED messageDocs
     ELSE /\ messageDocs' = [messageDocs EXCEPT
                               ![messageId] = EditMessage(@, content, now)]
          /\ emits' = Http(userId, 200, "Message updated successfully")
  /\ last' = [Step("editMessage", 0, userId, messageId) EXCEPT
                !.log = messageDocs, !.arg = [content |-> content]]
  /\ UNCHANGED <<reactions, conn, sockUserId, activeUsers, inGeneral, isOnline, authT,
                 discT, msgs, msgLog, dbFailures, authEvents, agentVars>>

\* DELETE /message/:messageId
DeleteMessage(userId, messageId) ==
  /\ IF messageId > Len(messageDocs)
     THEN /\ emits' = Http(userId, 404, "Message not found")
          /\ UNCHANGED messageDocs
     ELSE IF ~SenderEquals(messageDocs[messageId], userId)
     THEN /\ emits' = Http(userId, 403, "You can only delete your own messages")
          /\ UNCHANGED messageDocs
     ELSE /\ messageDocs' = [messageDocs EXCEPT ![messageId] = SoftDelete(@, now)]
          /\ emits' = Http(userId, 200, "Message deleted successfully")
  /\ last' = [Step("deleteMessage", 0, userId, messageId) EXCEPT
                !.log = messageDocs, !.arg = [content |-> NoContent]]
  /\ UNCHANGED <<reactions, conn, sockUserId, activeUsers, inGeneral, isOnline, authT,
                 discT, msgs, msgLog, dbFailures, authEvents, agentVars>>

\* the message requests of the users, one after the other
NextEdit ==
  \/ \E u \in Users, k \in Texts \cup {NoContent} : PostMessage(u, k)
  \/ \E u \in Users, id \in 1..MaxDocs, k \in Texts \cup {NoContent} :
       PutMessage(u, id, k)
  \/ \E u \in Users, id \in 1..MaxDocs : DeleteMessage(u, id)
  \/ Tick

\* ------------------------------------------------------------- system data
AdminRoom == [name |-> "admin", sock |-> 0]   \* joined only by setupAdminRoom
SystemData == [agentId : AgentIds]

\* agent.lastSeen = Date.now(); the systemData kept in the entry is read nowhere
AgentAfterSystemData(agent, t) == [agent EXCEPT !.lastSeen = t]

\* socket.on('data:system'), once per listener registered on the socket
DataSystem(c, data) ==
  /\ conn[c] = "open"
  /\ LET ran == agentHandlers[c]
     IN /\ ran > 0
        /\ IF data.agentId \in DOMAIN agentConnections
           THEN agentConnections' = [agentConnections EXCEPT
                  ![data.agentId] = AgentAfterSystemData(@, now)]
           ELSE UNCHANGED agentConnections
        /\ emits' = [i \in 1..ran |->
                       Emit("agent:system_data", Members(AdminRoom), data.agentId, 0, {}, "")]
        /\ last' = [Step("data:system", c, data.agentId, ran) EXCEPT
                      !.arg = [response |-> data, now |-> now]]
  /\ UNCHANGED <<chatVars, agentRest>>

\* the events the agents send: completed commands, pings that say 'active'
EventResponses == {r \in Responses : r.status = "completed"}
EventPings == {r \in Pings : r.status = "active"}

\* the events of the agents on their connections, and the commands sent to them
NextEvents ==
  \/ \E c \in Conns : Connect(c)
  \/ \E c \in Conns : Disconnect(c)
  \/ \E c \in Conns : \E d \in ValidHandshakes(now) :
       /\ agentHandlers[c] < MaxWindowAuth
       /\ d.agentId = AgentOf(c)
       /\ AgentAuthenticate(c, d)
  \/ \E a \in AgentIds, m \in Modules :
       m = ModuleOf(cmdSeq + 1) /\ SendCommandToAgent(a, m)
  \/ \E c \in Conns : \E r \in EventResponses : ResponseCommand(c, r)
  \/ \E c \in Conns : \E r \in EventPings : ResponsePing(c, r)
  \/ \E c \in Conns : \E data \in SystemData : DataSystem(c, data)
  \/ Tick

\* ------------------------------------------------------------- chat hub
\* the session lifecycle when no persistence call rejects
NextLifecycle ==
  \/ \E c \in Conns : Connect(c)
  \/ \E c \in Conns, i \in 1..MaxInFlight : AuthFindById(c, i)
  \/ \E c \in Conns, i \in 1..MaxInFlight : DbSetOnline(c, i)
  \/ \E c \in Conns, i \in 1..MaxInFlight : AuthRegister(c, i)
  \/ \E c \in Conns, i \in 1..MaxInFlight : DbFindOnline(c, i)
  \/ \E c \in Conns, i \in 1..MaxInFlight : AuthActiveUsers(c, i)
  \/ \E c \in Conns, i \in 1..MaxInFlight : AuthHistory(c, i)
  \/ \E c \in Conns : Disconnect(c)
  \/ \E c \in Conns : DiscFindById(c)
  \/ \E c \in Conns : DbSetOffline(c)
  \/ \E c \in Conns : DiscUserLeft(c)

NextSession ==
  \/ NextLifecycle
  \/ \E c \in Conns, tok \in Tokens : Authenticate(c, tok)
  \/ \E c \in Conns, i \in 1..MaxInFlight : AuthDbFail(c, i)
  \/ \E c \in Conns : DiscDbFail(c)

NextMessage ==
  \/ NextLifecycle
  \/ \E c \in Conns, u \in Users : Authenticate(c, u)
  \/ \E c \in Conns, k \in Contents, r \in RoomInputs :
       (SendRefused(c) \/ Len(msgs) < MaxMsgs) /\ SendMessage(c, k, r)
  \/ \E m \in 1..MaxMsgs : MsgSave(m)
  \/ \E m \in 1..MaxMsgs : MsgDbFail(m)
  \/ \E m \in 1..MaxMsgs : MsgBroadcast(m)

\* authenticated sessions and their messages, every one accepted and persisted
NextOrder ==
  \/ \E c \in Conns : Connect(c)
  \/ \E c \in Conns, u \in Users : Authenticate(c, u)
  \/ \E c \in Conns, i \in 1..MaxInFlight : AuthFindById(c, i)
  \/ \E c \in Conns, i \in 1..MaxInFlight : DbSetOnline(c, i)
  \/ \E c \in Conns, i \in 1..MaxInFlight : AuthRegister(c, i)
  \/ \E c \in Conns, i \in 1..MaxInFlight : DbFindOnline(c, i)
  \/ \E c \in Conns, i \in 1..MaxInFlight : AuthActiveUsers(c, i)
  \/ \E c \in Conns, i \in 1..MaxInFlight : AuthHistory(c, i)
  \/ \E c \in Conns : ~SendRefused(c) /\ SendMessage(c, "text", NoRoom)
  \/ \E m \in 1..MaxOrderMsgs : MsgSave(m)
  \/ \E m \in 1..MaxOrderMsgs : MsgBroadcast(m)

NextRelay ==
  \/ NextLifecycle
  \/ \E c \in Conns, u \in Users : Authenticate(c, u)
  \/ \E c \in Conns : Typing(c)
  \/ \E c \in Conns, u \in Users : CallRequest(c, u)
  \/ \E c \in Conns, u \in Users : CallResponse(c, u)
  \/ \E c \in Conns, u \in Users : WebrtcSignal(c, u)

NextAgent ==
  \/ \E c \in Conns : Connect(c)
  \/ \E c \in Conns : Disconnect(c)
  \/ \E c \in Conns : \E d \in Handshakes(now) :
       agentHandlers[c] < MaxWindowAuth /\ AgentAuthenticate(c, d)
  \/ \E d \in Handshakes(now) : RestAuthenticate(d)
  \/ Tick

\* repeated handshakes on the same connections
NextHandshake ==
  \/ \E c \in Conns : Connect(c)
  \/ \E c \in Conns : Disconnect(c)
  \/ \E c \in Conns : \E d \in CoreHandshakes(now) : AgentAuthenticate(c, d)
  \/ \E d \in CoreHandshakes(now) : RestAuthenticate(d)
  \/ Tick

\* the session lifecycle: every token, every persistence failure
Spec == Init /\ [][NextSession]_vars
\* authenticated sessions and message submission
SpecMessage == Init /\ [][NextMessage]_vars
\* authenticated sessions and the order of their messages' broadcasts
SpecOrder == Init /\ [][NextOrder]_vars
\* authenticated sessions and the relayed events (typing, call signalling)
SpecRelay == Init /\ [][NextRelay]_vars


\* the agent protocol: live connections and REST requests
SpecAgent == Init /\ [][NextAgent]_vars
\* the agent handshake, several times on a connection
SpecHandshake == Init /\ [][NextHandshake]_vars
\* the agent commands
SpecCommand == Init /\ [][NextCommand]_vars

\* the commands and their eviction: time passes, and a timer that is due fires
SpecRetention ==
  /\ Init /\ [][NextRetention]_vars
  /\ WF_now(Elapse)
  /\ \A id \in 1..MaxCommands : WF_timers(TimerFire(id))

\* the registry entries and the sweeps
SpecRegistry == Init /\ [][NextRegistry]_vars

\* the reactions of a message
SpecReaction == Init /\ [][NextReaction]_vars

\* one connection used on both paths: handleSocketConnection registers the chat
\* handlers and the 'agent:authenticate' wrapper on every socket
NextDual ==
  \/ NextLifecycle
  \/ \E c \in Conns, u \in Users : Authenticate(c, u)
  \/ \E c \in Conns : \E d \in ValidHandshakes(now) :
       /\ agentHandlers[c] < MaxWindowAuth
       /\ d.agentId = AgentOf(c)
       /\ AgentAuthenticate(c, d)

\* chat authentication and agent handshake on the same connections
SpecDual == Init /\ [][NextDual]_vars

\* the messages created, edited and deleted through the REST routes
SpecEdit == Init /\ [][NextEdit]_vars

\* the agent events on the live path
SpecEvents == Init /\ [][NextEvents]_vars

\* ============================================================= claims
CanonicalLog == <<"online", "session", "userJoined", "activeUsers", "messageHistory">>
IsPrefix(s, t) == Len(s) <= Len(t) /\ \A i \in 1..Len(s) : s[i] = t[i]
Evs(es) == [i \in 1..Len(es) |-> es[i].ev]
\* d is joined to room r in the adapter
JoinedTo(d, r) == (r = GeneralRoom /\ d \in inGeneral) \/ (r.sock = d)

\* C1: after every successful chat authentication (of a connection that is still
\* open) the activeUsers list delivered to the new connection includes that
\* connection's own user, whatever other connections of the same user do meanwhile.
C1_PresenceListHasOwnUser ==
  (last.op = "authDone" /\ conn[last.conn] = "open") => last.user \in last.list

\* C2: a successful authentication emits userJoined (to the other members of the
\* default scope), then activeUsers, then messageHistory (both to the new
\* connection), and the online flag was written and the Session registered before
\* the first of them.
C2_AuthNotificationOrder ==
  /\ \A c \in Conns : \A i \in 1..Len(authT[c]) : IsPrefix(authT[c][i].log, CanonicalLog)
  /\ last.op = "authRegister" =>
       /\ Evs(emits) = <<"userJoined">>
       /\ emits[1].to = {d \in inGeneral : conn[d] = "open"} \ {last.conn}
       /\ SessionUser(last.conn) = last.user
  /\ last.op = "authActiveUsers" =>
       /\ Evs(emits) = <<"activeUsers">>
       /\ emits[1].to = {last.conn}
  /\ last.op = "authDone" =>
       /\ Evs(emits) = <<"messageHistory">>
       /\ emits[1].to = {last.conn}
       /\ last.log = CanonicalLog

C2_Witness == last.op = "authDone" /\ Len(emits) = 1

\* C3: a disconnect of a connection that has no Session is a no-op: the registry
\* is unchanged, no online flag is written, no disconnect handler is left running
\* and no userLeft is emitted.
C3_DisconnectWithoutSessionIsNoOp ==
  [][\A c \in Conns :
       (conn[c] = "open" /\ conn'[c] = "closed" /\ ~HasSession(c)) =>
         /\ activeUsers' = activeUsers
         /\ isOnline' = isOnline
         /\ discT' = discT
         /\ \A i \in 1..Len(emits') : emits'[i].ev # "userLeft"]_vars

C3_Witness ==
  last.op = "disconnect" /\ ~last.hadSession /\ last.hadUserId
    /\ conn[last.conn] = "closed"

\* the step is an authentication failing on its token or on a missing user
AuthRejected(l) ==
  \/ l.op = "authenticate" /\ l.user = BadToken
  \/ l.op = "authFindById" /\ l.user = Ghost

\* C4: an authenticate with an invalid token, or with a valid token of a user that
\* does not exist, emits authError to that connection and disconnects it, registers
\* no Session, sets no online flag and emits no userJoined.
C4_RejectedAuthentication ==
  [][AuthRejected(last') =>
       /\ Evs(emits') = <<"authError">>
       /\ emits'[1].to = {last'.conn}
       /\ conn'[last'.conn] = "closed"
       /\ \A d \in Conns : HasSession(d)' => HasSession(d)
       /\ isOnline' = isOnline
       /\ sockUserId' = sockUserId
       /\ \A d \in Conns : Len(authT'[d]) <= Len(authT[d])]_vars

C4_Witness ==
  /\ last.op = "authFindById" /\ last.user = Ghost
  /\ Len(emits) = 1 /\ emits[1].text = "User not found"
  /\ conn[last.conn] = "closed"

\* C5: a sendMessage from a connection that has no registered Session produces the
\* error 'Not authenticated' to that connection only and persists and broadcasts
\* nothing, also while the connection's authentication is in progress.
C5_SendWithoutSessionRefused ==
  (last.op = "sendMessage" /\ ~last.hadSession) =>
    /\ Len(emits) = 1
    /\ emits[1].ev = "error" /\ emits[1].text = "Not authenticated"
    /\ emits[1].to = {last.conn}
    /\ last.msg = 0

\* C6: when persisting a submitted message fails, the failure is reported as an
\* error event to the sending connection only, and no newMessage for that
\* submission is emitted to any connection.
C6_PersistFailureToSenderOnly ==
  /\ \A m \in 1..Len(msgs) : msgs[m].pc = "failed" =>
       \A i \in 1..Len(msgLog) : msgLog[i].msg # m
  /\ (last.op \in {"msgSave", "msgDbFail"} /\ msgs[last.msg].pc = "failed") =>
       /\ Evs(emits) = <<"error">>
       /\ emits[1].to = {msgs[last.msg].conn}

C6_Witness ==
  /\ last.op = "msgDbFail" /\ ~msgs[last.msg].persisted
  /\ msgs[last.msg].room = GeneralRoom
  /\ \E d \in inGeneral : d # last.conn /\ conn[d] = "open"

CallOps == {"callRequest", "callResponse", "webrtc-signal"}

\* C8: callRequest, callResponse and webrtc-signal each emit at most one event, to
\* a single connection whose Session belongs to the named target user; when the
\* target user has no Session nothing is emitted, and no state changes.
C8_CallRelayUnicast ==
  [][last'.op \in CallOps =>
       /\ chatVars' = chatVars
       /\ Len(emits') <= 1
       /\ \A i \in 1..Len(emits') :
            /\ Cardinality(emits'[i].to) <= 1
            /\ \A d \in emits'[i].to : SessionUser(d) = last'.user
       /\ (\A d \in Conns : SessionUser(d) # last'.user) => emits' = <<>>]_vars

C8_Witness ==
  /\ last.op = "callRequest"
  /\ Len(emits) = 1 /\ emits[1].to # {} /\ last.conn \notin emits[1].to
  /\ Cardinality({d \in Conns : SessionUser(d) = last.user}) = 2

HandshakeOps == {"agentAuthenticate", "restAuthenticate"}
\* |now - timestamp| of the handshake of step l
Skew(l) == Abs(l.arg.now - l.arg.d.timestamp)
OutsideWindow(l) == l.arg.d.hasTs /\ Skew(l) > AuthWindowMs
AtWindowEdge(l) == l.arg.d.hasTs /\ Skew(l) = AuthWindowMs
CorrectlySigned(l) == l.arg.d.signature = CreateSignature(AuthPayload(l.arg.d))
Replies(es) ==
  SelectSeq(es, LAMBDA e : e.ev \in {"agent:authenticated", "agent:auth_failed", "http"})
IsAck(e) == e.ev = "agent:authenticated" \/ (e.ev = "http" /\ e.msg = 200)
AllReplies(es, P(_)) == \A i \in 1..Len(Replies(es)) : P(Replies(es)[i])
IsExpiredReply(e) == ~IsAck(e) /\ e.text = "Authentication timestamp expired"
IsFailureReply(e) == ~IsAck(e)

\* C10 as claimed: on both paths a handshake whose timestamp differs from server
\* time by more than 300000 ms never creates or updates an AgentConnection and
\* never yields an authenticated acknowledgement, whatever the signature; when its
\* signature is correct the failure message is 'Authentication timestamp expired';
\* a difference of exactly 300000 ms passes the window check.
C10_StaleHandshakeRejected_AsClaimed ==
  [][last'.op \in HandshakeOps =>
       /\ OutsideWindow(last') =>
            /\ agentConnections' = agentConnections
            /\ activeAgents' = activeAgents
            /\ sockAgentId' = sockAgentId
            /\ AllReplies(emits', IsFailureReply)
            /\ CorrectlySigned(last') => AllReplies(emits', IsExpiredReply)
       /\ (AtWindowEdge(last') /\ CorrectlySigned(last')) =>
            AllReplies(emits', IsAck)]_vars

\* C10, amended: the same, the failure message being 'Authentication timestamp
\* expired' when the signature is correct and all four fields are present (a
\* timestamp of 0 counts as a missing field and is answered as such).
C10_StaleHandshakeRejected ==
  [][last'.op \in HandshakeOps =>
       /\ OutsideWindow(last') =>
            /\ agentConnections' = agentConnections
            /\ activeAgents' = activeAgents
            /\ sockAgentId' = sockAgentId
            /\ AllReplies(emits', IsFailureReply)
            /\ (CorrectlySigned(last') /\ ~MissingFields(last'.arg.d)) =>
                 AllReplies(emits', IsExpiredReply)
       /\ (AtWindowEdge(last') /\ CorrectlySigned(last')) =>
            AllReplies(emits', IsAck)]_vars

C10_Witness ==
  /\ last.op = "agentAuthenticate" /\ last.msg >= 1
  /\ OutsideWindow(last) /\ CorrectlySigned(last)
  /\ last.arg.d.timestamp > last.arg.now
  /\ Len(Replies(emits)) = 1 /\ IsExpiredReply(Replies(emits)[1])


\* the handshake of step l has all four fields, a correct signature and a
\* timestamp inside the window
Passes(l) ==
  ~MissingFields(l.arg.d) /\ CorrectlySigned(l) /\ Skew(l) <= AuthWindowMs
\* e is the acknowledgement of step l: status, agentId, the server time of the
\* handshake, and a server signature over those three
IsSignedAck(e, l) ==
  /\ IsAck(e)
  /\ e.list = {[status |-> "authenticated", agentId |-> l.arg.d.agentId,
                timestamp |-> l.arg.now,
                signature |-> CreateSignature([status |-> "authenticated",
                                               agentId |-> l.arg.d.agentId,
                                               timestamp |-> l.arg.now])]}

\* C11: every agent:authenticate event received on a connection, the first one
\* included, causes exactly one reply to that connection: agent:authenticated when
\* the handshake succeeds, agent:auth_failed when it fails.
C11_OneReplyPerHandshakeEvent ==
  last.op = "agentAuthenticate" =>
    /\ Len(Replies(emits)) = 1
    /\ Replies(emits)[1].to = {last.conn}
    /\ IsAck(Replies(emits)[1]) <=> Passes(last)

C13_FailedHandshakeChangesNothing ==
  [][(last'.op \in HandshakeOps /\ ~Passes(last')) =>
       /\ agentConnections' = agentConnections
       /\ activeAgents' = activeAgents
       /\ sockAgentId' = sockAgentId
       /\ conn' = conn
       /\ AllReplies(emits', IsFailureReply)]_vars

\* the same connection completes a handshake after one of its handshakes failed:
\* the third event succeeds on a connection whose second event registered nothing
C13_Witness ==
  /\ last.op = "agentAuthenticate" /\ last.msg = 2 /\ Passes(last)
  /\ last.arg.hadAgentId = None
  /\ conn[last.conn] = "open"
  /\ sockAgentId[last.conn] = last.arg.d.agentId


\* C14: a dispatch to an agentId that has no AgentConnection fails with
\* AgentNotFound (REST: 404), emits nothing, and leaves the command table and the
\* agent registry unchanged, on the live path and on the REST path.
C14_DispatchToUnknownAgent ==
  [][/\ (last'.op = "sendCommandToAgent" /\ last'.user \notin DOMAIN agentConnections) =>
          /\ last'.arg.result = "AgentNotFound"
          /\ emits' = <<>>
          /\ pendingCommands' = pendingCommands
          /\ agentConnections' = agentConnections
     /\ (last'.op = "restCommand" /\ last'.user \notin DOMAIN activeAgents) =>
          /\ Len(emits') = 1 /\ emits'[1].ev = "http" /\ emits'[1].msg = 404
          /\ agentCommands' = agentCommands
          /\ activeAgents' = activeAgents]_vars

\* the second command of a run goes to an agent that never authenticated, while
\* the first one is in the table
C14_Witness ==
  /\ last.op = "sendCommandToAgent" /\ last.arg.result = "AgentNotFound"
  /\ last.user \notin DOMAIN agentConnections
  /\ DOMAIN pendingCommands = {1}
  /\ agentConnections # EmptyMap

\* C15: a dispatch to an agent whose registry entry exists but whose connection
\* is no longer live fails with an error other than AgentNotFound, emits nothing
\* and leaves the command table unchanged: no Command is retained for it.
C15_DispatchToStaleTransport ==
  [][(/\ last'.op = "sendCommandToAgent"
      /\ last'.user \in DOMAIN agentConnections
      /\ ~SocketLive(agentConnections[last'.user].socketId)) =>
        /\ last'.arg.result \notin {"ok", "AgentNotFound"}
        /\ emits' = <<>>
        /\ pendingCommands' = pendingCommands]_vars

\* a successful live dispatch leaves the command stored as 'sent' with its authHash
\* and emits it once, on its module's channel, to the agent's recorded connection
DispatchDelivers ==
  (last'.op = "sendCommandToAgent" /\ last'.arg.result = "ok") =>
    /\ last'.msg \in DOMAIN pendingCommands'
    /\ pendingCommands'[last'.msg].id = last'.msg
    /\ pendingCommands'[last'.msg].status = "sent"
    /\ pendingCommands'[last'.msg].authHash = AuthHash(last'.msg, CommandAction)
    /\ Len(emits') = 1
    /\ emits'[1].ev = CommandChannel(last'.arg.module)
    /\ emits'[1].to = {agentConnections[last'.user].socketId}
    /\ emits'[1].msg = last'.msg

\* C16: when a live-path dispatch succeeds the command table holds the command
\* under its id with status 'sent' and its authHash, and the command was emitted
\* exactly once, on the channel command:<module>, to the connection recorded for
\* the target agent only; no command stored by the live path ever has status
\* 'pending'.
C16_LiveDispatchStoresSent ==
  [][/\ DispatchDelivers
     /\ \A id \in DOMAIN pendingCommands' : pendingCommands'[id].status # "pending"]_vars

\* the delivery part of C16 on its own
C16_DeliveryPart == [][DispatchDelivers]_vars

\* the commands a step added to a table
Added(old, new) == DOMAIN new \ DOMAIN old
\* the step overwrote or removed nothing in the table
Kept(old, new) == \A id \in DOMAIN old : id \in DOMAIN new /\ new[id] = old[id]

\* C17: a broadcast to N recipient agents creates N Commands with pairwise distinct
\* ids, one per recipient; afterwards the command table holds one entry per
\* recipient and none was overwritten.  (On the REST path also: each entry is bound
\* to its recipient's agentId.  On the live path the commands' agentId is whatever
\* the caller's command object carries, so only the count is stated.)
C17_BroadcastOneCommandPerRecipient ==
  [][/\ last'.op = "broadcastCommandToAllAgents" =>
          /\ Cardinality(Added(pendingCommands, pendingCommands')) =
               Cardinality(BroadcastTargets)
          /\ Kept(pendingCommands, pendingCommands')
     /\ last'.op = "restBroadcast" =>
          /\ Cardinality(Added(agentCommands, agentCommands')) =
               Cardinality(RestBroadcastTargets)
          /\ \A a \in RestBroadcastTargets :
               \E id \in Added(agentCommands, agentCommands') :
                 agentCommands'[id].agentId = a
          /\ Kept(agentCommands, agentCommands')]_vars

\* C18: when delivery to one targeted agent fails during a live broadcast,
\* delivery is still attempted to every other targeted agent, and the returned
\* list has exactly one entry per targeted agent, with success = false for exactly
\* the agents whose connection is not live.
C18_BroadcastToleratesFailures ==
  [][last'.op = "broadcastCommandToAllAgents" =>
       LET res == last'.arg.results
       IN /\ Len(res) = Cardinality(BroadcastTargets)
          /\ {res[i].agentId : i \in 1..Len(res)} = BroadcastTargets
          /\ \A i \in 1..Len(res) :
               res[i].success <=> SocketLive(agentConnections[res[i].agentId].socketId)
          /\ \A a \in BroadcastTargets :
               SocketLive(agentConnections[a].socketId) =>
                 Cardinality({i \in 1..Len(emits') :
                                emits'[i].to = {agentConnections[a].socketId}}) = 1
          /\ Len(emits') = Cardinality({a \in BroadcastTargets :
                                          SocketLive(agentConnections[a].socketId)})]_vars

\* the first delivery of a broadcast failed and the second was made
C18_Witness ==
  /\ last.op = "broadcastCommandToAllAgents"
  /\ Len(last.arg.results) = 2
  /\ ~last.arg.results[1].success /\ last.arg.results[2].success
  /\ Len(emits) = 1

\* the live part of C19: the broadcast attempts exactly the agents whose status is
\* 'authenticated' or 'active'
LiveBroadcastTargetsByStatus ==
  last'.op = "broadcastCommandToAllAgents" =>
    /\ {last'.arg.results[i].agentId : i \in 1..Len(last'.arg.results)} =
         {a \in DOMAIN agentConnections :
            agentConnections[a].status \in {"authenticated", "active"}}
    /\ \A i \in 1..Len(emits') :
         \E a \in DOMAIN agentConnections :
           /\ agentConnections[a].status \in {"authenticated", "active"}
           /\ emits'[i].to = {agentConnections[a].socketId}

\* the REST part of C19: the broadcast creates commands for exactly the agents
\* whose status is 'authenticated' or 'active'
RestBroadcastTargetsByStatus ==
  last'.op = "restBroadcast" =>
    {agentCommands'[id].agentId : id \in Added(agentCommands, agentCommands')} =
      {a \in DOMAIN activeAgents : activeAgents[a].status \in {"authenticated", "active"}}

\* C19: a broadcast targets exactly the AgentConnections whose status is
\* 'authenticated' or 'active' at the time of the call: every such agent is
\* attempted and no agent with another status (command_sent, disconnected)
\* receives or is assigned a command, on the live path and on the REST path.
C19_BroadcastTargetsByStatus ==
  [][LiveBroadcastTargetsByStatus /\ RestBroadcastTargetsByStatus]_vars

\* the live part of C19 on its own
C19_LivePart == [][LiveBroadcastTargetsByStatus]_vars

\* the registry `new` is `old` with the entry of a refreshed: lastSeen = t, status
\* 'active', every other field and every other entry as before
Refreshed(old, new, a, t) ==
  /\ DOMAIN new = DOMAIN old
  /\ \A b \in DOMAIN old \ {a} : new[b] = old[b]
  /\ a \in DOMAIN old =>
       /\ new[a].lastSeen = t /\ new[a].status = "active"
       /\ new[a].connectedAt = old[a].connectedAt
       /\ new[a].platform = old[a].platform

\* C20: when a response arrives for a known commandId (live path: on a connection
\* that has the agent listeners), the response is attached to that Command, the
\* Command's status becomes the reported status, and the AgentConnection named by
\* the response, when it exists, gets lastSeen = now and status 'active'; no other
\* Command and no other AgentConnection changes.
C20_ResponseForKnownCommand ==
  [][/\ (/\ last'.op = "response:command" /\ last'.msg >= 1
         /\ last'.arg.response.commandId \in DOMAIN pendingCommands) =>
          LET r == last'.arg.response
          IN /\ DOMAIN pendingCommands' = DOMAIN pendingCommands
             /\ \A id \in DOMAIN pendingCommands \ {r.commandId} :
                  pendingCommands'[id] = pendingCommands[id]
             /\ pendingCommands'[r.commandId].status = r.status
             /\ pendingCommands'[r.commandId].response = <<r>>
             /\ pendingCommands'[r.commandId].agentId = pendingCommands[r.commandId].agentId
             /\ Refreshed(agentConnections, agentConnections', r.agentId, now)
             /\ r.agentId \in DOMAIN agentConnections =>
                  agentConnections'[r.agentId].socketId = agentConnections[r.agentId].socketId
     /\ (/\ last'.op = "restResponse"
         /\ last'.arg.response.commandId \in DOMAIN agentCommands) =>
          LET r == last'.arg.response
          IN /\ DOMAIN agentCommands' = DOMAIN agentCommands
             /\ \A id \in DOMAIN agentCommands \ {r.commandId} :
                  agentCommands'[id] = agentCommands[id]
             /\ agentCommands'[r.commandId].status = r.status
             /\ agentCommands'[r.commandId].agentId = agentCommands[r.commandId].agentId
             /\ r.commandId \in DOMAIN agentResponses'
             /\ agentResponses'[r.commandId].status = r.status
             /\ agentResponses'[r.commandId].agentId = r.agentId
             /\ \A id \in DOMAIN agentResponses \ {r.commandId} :
                  /\ id \in DOMAIN agentResponses'
                  /\ agentResponses'[id] = agentResponses[id]
             /\ Refreshed(activeAgents, activeAgents', r.agentId, now)]_vars

\* a response for one of two stored commands, naming one of two registered agents,
\* a tick after that agent's handshake
C20_Witness ==
  /\ last.op = "response:command" /\ last.msg >= 1 /\ last.arg.known
  /\ Cardinality(DOMAIN pendingCommands) = 2
  /\ Cardinality(DOMAIN agentConnections) = 2
  /\ agentConnections[last.user].connectedAt < agentConnections[last.user].lastSeen
  /\ agentConnections[last.user].status = "active"
  /\ pendingCommands[last.arg.response.commandId].status = "completed"

\* the entries of the users other than u, in order
OthersOf(list, u) == SelectSeq(list, LAMBDA r : r.user # u)
\* the positions of u's entries
EntriesOf(list, u) == {i \in 1..Len(list) : list[i].user = u}

\* C27: after any sequence of addReaction(user, emoji) and removeReaction(user)
\* calls on a message, its reaction list holds at most one entry per user; after
\* addReaction(u, e) the entry of u holds e; after removeReaction(u) there is no
\* entry of u; the entries of all other users are unchanged and keep their
\* relative order.
C27_OneReactionPerUser ==
  [][/\ \A u \in Reactors : Cardinality(EntriesOf(reactions', u)) <= 1
     /\ (last'.op = "addReaction" /\ last'.arg.emoji # NoEmoji) =>
          /\ \E i \in EntriesOf(reactions', last'.user) :
               reactions'[i].emoji = last'.arg.emoji
          /\ OthersOf(reactions', last'.user) = OthersOf(reactions, last'.user)
     /\ last'.op = "removeReaction" =>
          /\ EntriesOf(reactions', last'.user) = {}
          /\ OthersOf(reactions', last'.user) = OthersOf(reactions, last'.user)]_vars

\* a user who had reacted reacts again with another emoji, on a message that two
\* other users have reacted to
C27_Witness ==
  /\ last.op = "addReaction"
  /\ \E i \in 1..Len(last.log) :
       last.log[i].user = last.user /\ last.log[i].emoji # last.arg.emoji
  /\ last.log[1].user = last.user
  /\ Len(reactions) = 3
  /\ reactions[3] = [user |-> last.user, emoji |-> last.arg.emoji]

\* C21: for a response whose commandId is unknown, the REST path answers
\* CommandNotFound (404) and the live path emits nothing to the agent; on both
\* paths no Command or Response entry is created or changed.
C21_ResponseForUnknownCommand ==
  [][/\ (/\ last'.op = "restResponse"
         /\ last'.arg.response.commandId \notin DOMAIN agentCommands) =>
          /\ Len(emits') = 1 /\ emits'[1].ev = "http" /\ emits'[1].msg = 404
          /\ emits'[1].text = "Command not found"
          /\ agentCommands' = agentCommands
          /\ agentResponses' = agentResponses
     /\ (/\ last'.op = "response:command"
         /\ last'.arg.response.commandId \notin DOMAIN pendingCommands) =>
          /\ emits' = <<>>
          /\ pendingCommands' = pendingCommands
          /\ timers' = timers]_vars

\* a REST response names a command id that was never issued, while another
\* command and its response are stored
C21_Witness ==
  /\ last.op = "restResponse"
  /\ last.arg.response.commandId \notin DOMAIN agentCommands
  /\ agentCommands # EmptyMap /\ agentResponses # EmptyMap
  /\ emits[1].msg = 404

\* C22: a response with an unknown commandId changes no state at all on either
\* ingestion path: besides the command and response tables, no AgentConnection's
\* lastSeen or status changes.
C22_UnknownResponseChangesNothing ==
  [][/\ (/\ last'.op = "restResponse"
         /\ last'.arg.response.commandId \notin DOMAIN agentCommands) =>
          /\ agentCommands' = agentCommands /\ agentResponses' = agentResponses
          /\ activeAgents' = activeAgents
     /\ (/\ last'.op = "response:command"
         /\ last'.arg.response.commandId \notin DOMAIN pendingCommands) =>
          /\ pendingCommands' = pendingCommands /\ timers' = timers
          /\ agentConnections' = agentConnections]_vars

\* the REST part of C22 on its own
C22_RestPart ==
  [][(/\ last'.op = "restResponse"
      /\ last'.arg.response.commandId \notin DOMAIN agentCommands) =>
        /\ agentCommands' = agentCommands /\ agentResponses' = agentResponses
        /\ activeAgents' = activeAgents]_vars

\* C23: at most one Response is retained per Command at all times; after two
\* responses for the same commandId the retained one is the one processed last.
C23_OneResponsePerCommand ==
  [][/\ \A id \in DOMAIN pendingCommands' :
          /\ Len(pendingCommands'[id].response) <= 1
          /\ \A i \in 1..Len(pendingCommands'[id].response) :
               pendingCommands'[id].response[i].commandId = id
     /\ \A id \in DOMAIN agentResponses' :
          id \in DOMAIN agentCommands' /\ agentResponses'[id].commandId = id
     /\ (/\ last'.op = "response:command" /\ last'.msg >= 1
         /\ last'.arg.response.commandId \in DOMAIN pendingCommands) =>
          pendingCommands'[last'.arg.response.commandId].response =
            <<last'.arg.response>>
     /\ (/\ last'.op = "restResponse"
         /\ last'.arg.response.commandId \in DOMAIN agentCommands) =>
          LET r == last'.arg.response
          IN agentResponses'[r.commandId] =
               [commandId |-> r.commandId, agentId |-> r.agentId, status |-> r.status,
                receivedAt |-> now]]_vars

\* a second response for a command, different from the retained one, has replaced it
C23_Witness ==
  /\ last.op = "response:command" /\ last.msg >= 1 /\ last.arg.known
  /\ last.arg.prev # <<>>
  /\ last.arg.prev[1].status # last.arg.response.status
  /\ last.arg.prev[1].agentId # last.arg.response.agentId
  /\ pendingCommands[last.arg.response.commandId].response = <<last.arg.response>>

\* the position of a status on the path pending, sent, then completed or error
CommandStatuses == {"pending", "sent", "completed", "error"}
StatusRank(st) == IF st = "pending" THEN 0 ELSE IF st = "sent" THEN 1 ELSE 2
\* the statuses of the commands of a table move forward only
StatusForward(old, new) ==
  \A id \in DOMAIN old \cap DOMAIN new :
    /\ new[id].status \in CommandStatuses
    /\ StatusRank(new[id].status) >= StatusRank(old[id].status)
    /\ StatusRank(old[id].status) = 2 => new[id].status = old[id].status

\* C24: a Command's status only moves forward along pending, sent, then completed
\* or error: once a Command has a terminal status no later event changes it, and no
\* event returns a Command to pending or sent or sets a status outside
\* {pending, sent, completed, error}.
C24_CommandStatusMonotonic ==
  [][/\ StatusForward(pendingCommands, pendingCommands')
     /\ StatusForward(agentCommands, agentCommands')]_vars

\* the terminal part of C24 on its own, REST path: a completed Command stays
\* completed
C24_TerminalStatusIsFinal ==
  [][\A id \in DOMAIN agentCommands :
       agentCommands[id].status = "completed" =>
         agentCommands'[id].status = "completed"]_vars

\* C25: every Command stored in a command table (pendingCommands on the live path,
\* agentCommands on the REST path) is eventually removed once the retention window
\* has elapsed since its creation, whether or not a Response for it ever arrived.
C25_StoredCommandsArePurged ==
  \A id \in 1..MaxCommands :
    /\ [](( /\ id \in DOMAIN pendingCommands
            /\ now >= pendingCommands[id].sentAt + RetentionMs)
          => <>(id \notin DOMAIN pendingCommands))
    /\ [](( /\ id \in DOMAIN agentCommands
            /\ now >= agentCommands[id].timestamp + RetentionMs)
          => <>(id \notin DOMAIN agentCommands))

\* the live part of C25 on its own
C25_LivePart ==
  \A id \in 1..MaxCommands :
    [](( /\ id \in DOMAIN pendingCommands
         /\ now >= pendingCommands[id].sentAt + RetentionMs)
       => <>(id \notin DOMAIN pendingCommands))

\* the part of C25 the code provides: a live-path Command that a response arrived
\* for is eventually removed
C25_RespondedCommandsArePurged ==
  \A id \in 1..MaxCommands :
    [](( /\ id \in DOMAIN pendingCommands
         /\ pendingCommands[id].response # <<>>)
       => <>(id \notin DOMAIN pendingCommands))

\* the entries a sweep at this moment has to remove
Stale(registry) ==
  {a \in DOMAIN registry : now - registry[a].lastSeen > InactiveThresholdMs}
\* `new` is `old` without the entries of `gone`
Without(old, new, gone) ==
  /\ DOMAIN new = DOMAIN old \ gone
  /\ \A a \in DOMAIN new : new[a] = old[a]

\* C26: a cleanup sweep run at time now removes exactly the AgentConnections with
\* now - lastSeen > 30 minutes, leaves every other entry unchanged, and reports the
\* number removed; outside a sweep no AgentConnection is ever removed from the
\* registry.
C26_CleanupSweep ==
  [][/\ last'.op = "cleanupInactiveAgents" =>
          /\ Without(agentConnections, agentConnections', Stale(agentConnections))
          /\ last'.arg.cleaned = Cardinality(Stale(agentConnections))
     /\ last'.op = "restCleanup" =>
          /\ Without(activeAgents, activeAgents', Stale(activeAgents))
          /\ emits'[1].list = {[cleaned |-> Cardinality(Stale(activeAgents))]}
     /\ last'.op # "cleanupInactiveAgents" =>
          DOMAIN agentConnections \subseteq DOMAIN agentConnections'
     /\ last'.op # "restCleanup" =>
          DOMAIN activeAgents \subseteq DOMAIN activeAgents']_vars

\* a sweep removed one entry and kept one whose lastSeen is exactly 30 minutes old
C26_Witness ==
  /\ last.op = "cleanupInactiveAgents"
  /\ last.arg.cleaned = 1
  /\ \E a \in DOMAIN agentConnections :
       now - agentConnections[a].lastSeen = InactiveThresholdMs

AgentStatuses == {"authenticated", "active", "command_sent", "disconnected"}
\* every entry of a registry has one of the four statuses
StatusesInSet(registry) == \A a \in DOMAIN registry : registry[a].status \in AgentStatuses

\* C28: in every reachable state every AgentConnection's status is one of
\* authenticated, active, command_sent, disconnected; in particular a
\* response:ping changes only the liveness (lastSeen) of the named agent and never
\* puts its status outside that set.
C28_AgentStatusInSet ==
  [][/\ StatusesInSet(agentConnections') /\ StatusesInSet(activeAgents')
     /\ last'.op = "response:ping" =>
          /\ DOMAIN agentConnections' = DOMAIN agentConnections
          /\ \A a \in DOMAIN agentConnections :
               /\ agentConnections'[a].status = agentConnections[a].status
               /\ a # last'.user => agentConnections'[a] = agentConnections[a]]_vars

\* the first part of C28 on its own, as a state predicate
C28_StatusInvariant == StatusesInSet(agentConnections) /\ StatusesInSet(activeAgents)

\* step l' is a handshake of agent a that ran and passed
HandshakeOf(a) ==
  /\ last'.op \in HandshakeOps /\ last'.user = a /\ last'.msg >= 1
  /\ Passes(last')

\* the live-path status changes the state machine has, other than a handshake
LiveStatusStep(from, to) ==
  \/ from = to
  \/ from = "authenticated" /\ to \in {"active", "disconnected"}
  \/ from = "active" /\ to = "disconnected"
\* the same on the REST path
RestStatusStep(from, to) ==
  \/ LiveStatusStep(from, to)
  \/ from = "authenticated" /\ to = "command_sent"
  \/ from = "command_sent" /\ to = "active"

LiveStatusMachine ==
  \A a \in DOMAIN agentConnections \cap DOMAIN agentConnections' :
    \/ HandshakeOf(a) /\ agentConnections'[a].status = "authenticated"
    \/ LiveStatusStep(agentConnections[a].status, agentConnections'[a].status)
RestStatusMachine ==
  \A a \in DOMAIN activeAgents \cap DOMAIN activeAgents' :
    \/ HandshakeOf(a) /\ activeAgents'[a].status = "authenticated"
    \/ RestStatusStep(activeAgents[a].status, activeAgents'[a].status)

\* C29: an AgentConnection's status changes only along unauthenticated ->
\* authenticated -> active -> disconnected, plus authenticated -> command_sent on
\* the REST path: a disconnected entry leaves that status only through a new
\* successful handshake, command_sent is set only from authenticated, and
\* command_sent is never set on the live path.  (Read generously: a successful
\* handshake may set authenticated from any status, a step may skip active, and
\* the REST response may take command_sent to active.)
C29_AgentStatusMachine ==
  [][LiveStatusMachine /\ RestStatusMachine]_vars

\* C29 (the clause 'command_sent is set only from authenticated'): on the REST path
\* no step other than a handshake takes an entry whose status is neither
\* authenticated nor command_sent to command_sent
C29_CommandSentFromAuthenticated ==
  [][\A a \in DOMAIN activeAgents \cap DOMAIN activeAgents' :
       (activeAgents'[a].status = "command_sent" /\ ~HandshakeOf(a)) =>
         activeAgents[a].status \in {"authenticated", "command_sent"}]_vars

\* C29, 'a disconnected entry leaves that status only through a new successful
\* handshake', live path
C29_DisconnectedUntilHandshake ==
  [][\A a \in DOMAIN agentConnections \cap DOMAIN agentConnections' :
       (agentConnections[a].status = "disconnected" /\ ~HandshakeOf(a)) =>
         agentConnections'[a].status = "disconnected"]_vars

\* C29, 'command_sent is never set on the live path'
C29_NoCommandSentOnLivePath ==
  \A a \in DOMAIN agentConnections : agentConnections[a].status # "command_sent"

\* C30: two sendMessage events accepted from the same connection can be broadcast
\* in the reverse of their submission order when the persistence of the first
\* completes after that of the second: the hub does not serialize broadcasts by
\* submission order.  In every state, a submission whose persistence calls have
\* resolved can be broadcast at once, whether or not an earlier submission is
\* still waiting for its own.
C30_BroadcastDoesNotWaitForEarlier ==
  \A m \in 1..Len(msgs) : msgs[m].pc = "populate" => ENABLED MsgBroadcast(m)

\* two messages of one connection were broadcast, the second before the first
C30_Witness ==
  /\ Len(msgs) = 2 /\ msgs[1].conn = msgs[2].conn
  /\ Len(msgLog) = 2
  /\ msgLog[1].msg = 2 /\ msgLog[2].msg = 1
  /\ msgLog[1].to # {} /\ msgLog[1].to = msgLog[2].to
  /\ last.op = "msgBroadcast" /\ last.msg = 1

\* the connection recorded as the transport of an entry of the live registry
IsAgentTransport(c) ==
  \E a \in DOMAIN agentConnections : agentConnections[a].socketId = c

\* C31: no connection is at the same time registered as a chat Session and
\* recorded as the transport of an AgentConnection.
C31_SessionOrAgentTransport ==
  \A c \in Conns : ~(HasSession(c) /\ IsAgentTransport(c))

\* C31, 'a connection that authenticated on one path is never promoted on the
\* other': no step registers a Session for an agent transport, or records a
\* connection that has a Session as an agent transport
C31_NeverPromotedOnTheOther ==
  [][\A c \in Conns :
       /\ (IsAgentTransport(c) /\ ~HasSession(c)) => ~HasSession(c)'
       /\ (HasSession(c) /\ ~IsAgentTransport(c)) => ~IsAgentTransport(c)']_vars

EditOps == {"editMessage", "deleteMessage"}

\* the step is an edit or delete request answered with this code and no mutation
Refused(code) == emits'[1].msg = code /\ messageDocs' = messageDocs

\* the step is an edit or delete request that is let through: only the message
\* it names changes, and it is edited or marked deleted
Succeeds ==
  LET id == last'.msg
  IN /\ emits'[1].msg = 200
     /\ id <= Len(messageDocs)
     /\ messageDocs[id].sender = last'.user
     /\ Len(messageDocs') = Len(messageDocs)
     /\ \A j \in 1..Len(messageDocs) : j # id => messageDocs'[j] = messageDocs[j]
     /\ messageDocs'[id].sender = messageDocs[id].sender
     /\ IF last'.op = "editMessage"
        THEN /\ messageDocs'[id].content = last'.arg.content
             /\ messageDocs'[id].isEdited
             /\ messageDocs'[id].isDeleted = messageDocs[id].isDeleted
        ELSE /\ messageDocs'[id].isDeleted
             /\ messageDocs'[id].content = messageDocs[id].content

SimplySignedInWindow ==
  /\ last.op = "restAuthenticate"
  /\ ~MissingFields(last.arg.d)
  /\ last.arg.d.signature = SimpleSignature(AuthPayload(last.arg.d))
  /\ Abs(last.arg.now - last.arg.d.timestamp) <= AuthWindowMs

\* C33: the REST handshake accepts a request signed with the simple base64 scheme,
\* provided all fields are present and the timestamp is within the replay window:
\* such a request registers the agent and is answered with status 'authenticated'.
C33_RestAcceptsSimpleSignature ==
  SimplySignedInWindow =>
    /\ IsAck(emits[1])
    /\ last.arg.d.agentId \in DOMAIN activeAgents
    /\ activeAgents[last.arg.d.agentId].status = "authenticated"

\* C33, what the route does with such a request: verifySignature throws in
\* crypto.timingSafeEqual, the answer is 500 'Authentication failed'
C33_SimpleSignatureFails ==
  SimplySignedInWindow => emits[1].msg = 500 /\ emits[1].text = "Authentication failed"

\* c has disconnected and every handler started for it has finished
Finished(c) == conn[c] = "closed" /\ authT[c] = <<>> /\ discT[c].pc = "none"

\* C34: once a connection has disconnected and every handler started for it has
\* finished, the registry holds no Session keyed by that connection, also when the
\* disconnect arrives while the connection's authentication is suspended on a
\* persistence call.
C34_NoSessionAfterDisconnect ==
  \A c \in Conns : Finished(c) => ~HasSession(c)

\* C34, 'the online flag it set has been cleared': when no other connection was
\* ever opened, the user of a connection that is over is not marked online
C34_FlagClearedAfterDisconnect ==
  \A c \in Conns :
    (Finished(c) /\ sockUserId[c] # None /\ \A d \in Conns \ {c} : conn[d] = "new")
      => ~isOnline[sockUserId[c]]

\* no authenticate or disconnect handler is in progress
NoHandlerInProgress ==
  \A c \in Conns : authT[c] = <<>> /\ discT[c].pc = "none"

\* C35: whenever no authenticate or disconnect handler is in progress, every user
\* who has at least one Session in the registry has the persisted online flag
\* true.
C35_SessionUsersAreOnline ==
  NoHandlerInProgress =>
    \A i \in 1..Len(activeUsers) : isOnline[activeUsers[i].userId]

\* C35, 'disconnecting one connection of a user with several live sessions does
\* not leave that user marked offline': the same, for the Sessions of connections
\* that are still open
C35_LiveSessionUsersAreOnline ==
  NoHandlerInProgress =>
    \A i \in 1..Len(activeUsers) :
      conn[activeUsers[i].socketId] = "open" => isOnline[activeUsers[i].userId]

ClientEvents == {"sendMessage", "typing", "callRequest", "callResponse", "webrtc-signal"}

\* the connections other than c that the events of the last step were sent to
ReachedOthers(c) == UNION {emits[i].to : i \in 1..Len(emits)} \ {c}

\* C36: a connection that has not successfully authenticated on the chat path
\* never causes any event to be emitted to another connection: its sendMessage,
\* typing, callRequest, callResponse and webrtc-signal events reach nobody.
C36_UnauthenticatedReachesNobody ==
  (last.op \in ClientEvents /\ ~last.hadSession) => ReachedOthers(last.conn) = {}

\* C36 for a connection that never sent an authenticate event: socket.userId is
\* unset
C36_NoUserIdReachesNobody ==
  (last.op \in ClientEvents /\ ~last.hadUserId) => ReachedOthers(last.conn) = {}

\* C36 for the two guarded events
C36_TypingGuarded ==
  (last.op = "typing" /\ ~last.hadUserId) => emits = <<>>

\* C37: an AgentConnection is marked 'disconnected' only when the connection
\* recorded as its transport has disconnected: after an agentId re-handshakes on a
\* new connection, the later disconnect of the old connection does not change the
\* new entry.
C37_DisconnectedOnlyByOwnTransport ==
  [][\A a \in DOMAIN agentConnections \cap DOMAIN agentConnections' :
       (agentConnections[a].status # "disconnected"
          /\ agentConnections'[a].status = "disconnected")
         => /\ conn[agentConnections[a].socketId] = "open"
            /\ conn'[agentConnections[a].socketId] = "closed"]_vars

\* C37, 'an agent with a live recorded transport is never excluded from broadcast
\* as disconnected'
C37_LiveTransportNotDisconnected ==
  \A a \in DOMAIN agentConnections :
    agentConnections[a].status = "disconnected"
      => conn[agentConnections[a].socketId] # "open"

AgentEvents == {"response:command", "response:ping", "data:system"}

\* C38: an agent event (response:command, response:ping, data:system) received on
\* a connection changes an AgentConnection or a Command only if that connection
\* has completed a successful handshake, and then only the AgentConnection of the
\* agentId it authenticated as and Commands addressed to that agentId.
C38_EventsChangeOwnAgentOnly ==
  [][last'.op \in AgentEvents /\ last' # last =>
       LET c == last'.conn
       IN /\ \A a \in DOMAIN agentConnections :
               agentConnections'[a] # agentConnections[a] => sockAgentId[c] = a
          /\ \A id \in DOMAIN pendingCommands :
               pendingCommands'[id] # pendingCommands[id]
                 => pendingCommands[id].agentId = sockAgentId[c]]_vars

\* C38, the first half alone: an event on a connection that has completed no
\* successful handshake changes no AgentConnection and no Command
C38_EventsNeedHandshake ==
  [][(last'.op \in AgentEvents /\ last' # last /\ sockAgentId[last'.conn] = None)
       => /\ agentConnections' = agentConnections
          /\ pendingCommands' = pendingCommands]_vars

\* the step correlates a response to the stored command id of the table: the
\* command is changed, or a response is stored for it
Correlates(table, table2, id) == id \in DOMAIN table /\ table2[id] # table[id]

\* C39, live path: response:command changes a Command only when the response's
\* agentId equals the agentId the Command was addressed to
C39_LiveCorrelation ==
  [][(last'.op = "response:command" /\ last' # last) =>
       \A id \in DOMAIN pendingCommands :
         Correlates(pendingCommands, pendingCommands', id)
           => last'.arg.response.agentId = pendingCommands[id].agentId]_vars

\* C39, REST path: POST /response changes a Command or stores a Response only when
\* the response's agentId equals the agentId the Command was addressed to
C39_RestCorrelation ==
  [][(last'.op = "restResponse" /\ last' # last) =>
       \A id \in DOMAIN agentCommands :
         (Correlates(agentCommands, agentCommands', id)
            \/ (id = last'.arg.response.commandId /\ agentResponses' # agentResponses))
           => last'.arg.response.agentId = agentCommands[id].agentId]_vars

\* C39: a response is correlated to a Command (the Command's status changed, a
\* Response stored or attached) only when the response's agentId equals the
\* agentId the Command was addressed to, on both the REST and the live ingestion
\* path.
C39_ResponseCorrelatedByAgentId ==
  [][(last'.op \in {"response:command", "restResponse"} /\ last' # last) =>
       LET r == last'.arg.response
       IN /\ \A id \in DOMAIN pendingCommands :
               Correlates(pendingCommands, pendingCommands', id)
                 => r.agentId = pendingCommands[id].agentId
          /\ \A id \in DOMAIN agentCommands :
               Correlates(agentCommands, agentCommands', id)
                 => r.agentId = agentCommands[id].agentId
          /\ \A id \in DOMAIN agentResponses' :
               (id \notin DOMAIN agentResponses \/ agentResponses'[id] # agentResponses[id])
                 => r.agentId = agentCommands[id].agentId]_vars

\* C40: for every connection, once all its handlers have finished, the userId the
\* hub uses as the sender of that connection's events equals the userId of its
\* Session in the registry, also when the connection sends several authenticate
\* events with tokens of different users whose persistence calls interleave.
C40_SenderIsSessionUser ==
  \A c \in Conns :
    (conn[c] = "open" /\ authT[c] = <<>> /\ discT[c].pc = "none" /\ HasSession(c))
      => sockUserId[c] = SessionUser(c)

\* C40, 'the user whose online flag is set to false at disconnect is every user
\* whose flag that connection set to true': when the only connection ever opened
\* disconnects with a Session and no authenticate handler in progress, every user
\* marked online is the user its disconnect handler is going to mark offline
C40_OfflineCoversOnline ==
  [][\A c \in Conns :
       (/\ last'.op = "disconnect" /\ last'.conn = c /\ last' # last
        /\ authT[c] = <<>> /\ HasSession(c)
        /\ \A d \in Conns \ {c} : conn[d] = "new")
         => \A u \in Users : isOnline[u] => discT'[c].uid = u]_vars

====
